---- MODULE Spec2Model ----
(***************************************************************************)
(* Model of the image preprocessing / text-region trimming pipeline of     *)
(* the AI tutor application:                                               *)
(*   src/utils/image_processor.py            preprocess_uploaded_image     *)
(*   src/utils/image_processing_parts/contour_trimmers.py                  *)
(*   src/utils/image_processing_parts/ocr_processors.py                    *)
(*   src/utils/image_processing_parts/base_image_utils.py                  *)
(*                                                                         *)
(* An image is modelled by the pixel rectangle of the oriented upload it   *)
(* shows (x1,y1 inclusive, x2,y2 exclusive, as PIL crop boxes) and its     *)
(* colour mode.  Image.copy() is the identity on such values.  OpenCV and  *)
(* Tesseract are the environment: the contours cv2.findContours reports,   *)
(* the boxes pytesseract.image_to_data reports and the failures either     *)
(* library can produce are inputs drawn from bounded sets.                 *)
(***************************************************************************)
EXTENDS Integers, FiniteSets, Sequences, TLC

(***************************************************************************)
(* Bounds of the model                                                     *)
(***************************************************************************)
\* the trimmers are called on images of MaxDim x MaxDim pixels, the pipeline
\* on images of (MaxDim - 1) x (MaxDim - 1) pixels
MaxDim == 3
\* padding and ocr_trim_padding range over -1 .. MaxPad
MaxPad == 1
\* cv2.findContours reports at most MaxContours contours
MaxContours == 2
\* pytesseract.image_to_data reports at most MaxBoxes boxes
MaxBoxes == 2
\* resize_image_pillow on its own is called on images of up to
\* MaxSide x MaxSide pixels
MaxSide == 5
\* block sizes and morphology kernel sizes range over -MaxKernel .. MaxKernel
MaxKernel == 6

\* a message list holds at most MaxMessages messages
MaxMessages == 2

(***************************************************************************)
(* Values                                                                  *)
(***************************************************************************)
\* Python's None
None == [kind |-> "None"]

Image(x1, y1, x2, y2, mode) ==
    [kind |-> "image", x1 |-> x1, y1 |-> y1, x2 |-> x2, y2 |-> y2, mode |-> mode]

\* PIL: img.width, img.height
Width(img) == img.x2 - img.x1
Height(img) == img.y2 - img.y1

\* PIL: img.crop((cx1, cy1, cx2, cy2)); box coordinates are relative to img
Crop(img, cx1, cy1, cx2, cy2) ==
    Image(img.x1 + cx1, img.y1 + cy1, img.x1 + cx2, img.y1 + cy2, img.mode)

\* a slice that takes the columns for the rows: [cx1:cx2, cy1:cy2]
CropBinaryMutant(img, cx1, cy1, cx2, cy2) ==
    Image(img.x1 + cy1, img.y1 + cx1, img.x1 + cy2, img.y1 + cx2, "L")

\* the crop of the binarised intermediate: numpy slice [cy1:cy2, cx1:cx2]
\* turned into a mode 'L' PIL image
CropBinary(img, cx1, cy1, cx2, cy2) ==
    Image(img.x1 + cx1, img.y1 + cy1, img.x1 + cx2, img.y1 + cy2, "L")

\* Python truthiness of an Optional[Image]: a PIL image is always truthy
Truthy(v) == v # None

SetMin(S) == CHOOSE m \in S : \A n \in S : m <= n
SetMax(S) == CHOOSE m \in S : \A n \in S : m >= n
Max2(a, b) == IF a >= b THEN a ELSE b
Min2(a, b) == IF a <= b THEN a ELSE b

\* the subsets of S with at most k elements
RECURSIVE SubsetsUpTo(_, _)
SubsetsUpTo(S, k) ==
    IF k = 0 THEN {{}}
    ELSE LET smaller == SubsetsUpTo(S, k - 1)
         IN  smaller \cup {s \cup {e} : s \in smaller, e \in S}

\* the uploads after orientation correction: full-frame colour images
ImageSizes == {<<MaxDim, MaxDim>>}
OrientedImage(size) == Image(0, 0, size[1], size[2], "RGB")
OrientedImages == {OrientedImage(s) : s \in ImageSizes}

PadValues == (-1) .. MaxPad

\* The extents <<start, length>> a detected region takes along an axis of
\* the given length: one pixel anywhere, or from any pixel to the far edge.
Extents(side) ==
    {<<start, 1>> : start \in 0 .. (side - 1)}
    \cup {<<start, side - start>> : start \in 0 .. (side - 1)}

\* min_contour_area_ratio as a rational <<numerator, denominator>>
AreaRatios == {<<0, 1>>, <<1, 8>>, <<1, 2>>}

(***************************************************************************)
(* Contour-based trimmer: contour_trimmers.trim_image_by_contours          *)
(***************************************************************************)
\* A contour as cv2 reports it: its cv2.boundingRect (x, y, w, h), inside
\* the image, and its cv2.contourArea, the area of the polygon through the
\* boundary pixel centres: (w-1)*(h-1) for a filled block, 0 for a thin
\* stroke.
ContourPool(img) ==
    {[x |-> ex[1], y |-> ey[1], w |-> ex[2], h |-> ey[2],
      area |-> (ex[2] - 1) * (ey[2] - 1) * filled] :
        ex \in Extents(Width(img)), ey \in Extents(Height(img)),
        filled \in {0, 1}}

\* what the OpenCV stages can do inside the try block
ContourFaults == {"none", "gray_fail", "thresh_fail", "exception"}

\* step 6: cv2.contourArea(contour) >= original_width*original_height*ratio
AreaFilterMutant(img, ratio, contours) == contours

AreaFilter(img, ratio, contours) ==
    {c \in contours : c.area * ratio[2] >= Width(img) * Height(img) * ratio[1]}

\* step 7: min / max over the bounding rectangles of the valid contours
UnionBBox(rects) ==
    [x1 |-> SetMin({r.x : r \in rects}),
     y1 |-> SetMin({r.y : r \in rects}),
     x2 |-> SetMax({r.x + r.w : r \in rects}),
     y2 |-> SetMax({r.y + r.h : r \in rects})]

\* step 8: padding, clamped to the image
PadAndClampMutant(bbox, padding, width, height) ==
    [x1 |-> Max2(0, bbox.x1 + padding),
     y1 |-> Max2(0, bbox.y1 + padding),
     x2 |-> Min2(width, bbox.x2 - padding),
     y2 |-> Min2(height, bbox.y2 - padding)]

PadAndClamp(bbox, padding, width, height) ==
    [x1 |-> Max2(0, bbox.x1 - padding),
     y1 |-> Max2(0, bbox.y1 - padding),
     x2 |-> Min2(width, bbox.x2 + padding),
     y2 |-> Min2(height, bbox.y2 + padding)]

\* the crop rectangle the trimmer would cut for these contours; None if the
\* call returns before cropping
ContourCropBox(img, padding, ratio, contours) ==
    LET valid == AreaFilter(img, ratio, contours)
    IN  IF valid = {} THEN None
        ELSE LET box == PadAndClamp(UnionBBox(valid), padding, Width(img), Height(img))
             IN  IF box.x2 <= box.x1 \/ box.y2 <= box.y1 THEN None ELSE box

\* failure return of the trimmer: the copy taken before the try block
ContourFallbackMutant(img_pil_original_for_crop, path) ==
    [main |-> None, binary |-> None, path |-> path]

ContourFallback(img_pil_original_for_crop, path) ==
    [main |-> img_pil_original_for_crop, binary |-> None, path |-> path]

\* the whole call; path names the return statement taken
trim_image_by_contours(img_pil_input, padding, ratio, fault, contours) ==
    LET img_pil_original_for_crop == img_pil_input
        valid == AreaFilter(img_pil_input, ratio, contours)
        box == ContourCropBox(img_pil_input, padding, ratio, contours)
    IN  IF fault = "gray_fail"
            THEN ContourFallback(img_pil_original_for_crop, "gray_fail")
        ELSE IF fault = "thresh_fail"
            THEN ContourFallback(img_pil_original_for_crop, "thresh_fail")
        ELSE IF fault = "exception"
            THEN ContourFallback(img_pil_original_for_crop, "exception")
        ELSE IF contours = {}
            THEN ContourFallback(img_pil_original_for_crop, "no_contours")
        ELSE IF valid = {}
            THEN ContourFallback(img_pil_original_for_crop, "no_valid_contours")
        ELSE IF box = None
            THEN ContourFallback(img_pil_original_for_crop, "invalid_crop")
        ELSE [main |-> Crop(img_pil_original_for_crop, box.x1, box.y1, box.x2, box.y2),
              binary |-> CropBinary(img_pil_input, box.x1, box.y1, box.x2, box.y2),
              path |-> "cropped"]

(***************************************************************************)
(* OCR-box-based trimmer: ocr_processors.trim_image_by_ocr_text_bounds     *)
(***************************************************************************)
\* One row of pytesseract.image_to_data: level (5 = word), text, conf (in
\* tenths, Tesseract prints a decimal string) and the box, which Tesseract
\* reports inside the page.
OcrRowKinds ==
    {[level |-> 5, text |-> "ab", conf10 |-> 295],
     [level |-> 5, text |-> " ", conf10 |-> 300],
     [level |-> 4, text |-> "", conf10 |-> -10]}

\* The rows of the model: word rows that pass the text, level and confidence
\* tests on every rectangle of the page, the other kinds on the whole page.
OcrRows(img) ==
    {[level |-> 5, text |-> "ab", conf10 |-> 300,
      left |-> ex[1], top |-> ey[1], width |-> ex[2], height |-> ey[2]] :
        ex \in Extents(Width(img)), ey \in Extents(Height(img))}
    \cup
    {[level |-> k.level, text |-> k.text, conf10 |-> k.conf10,
      left |-> 0, top |-> 0, width |-> w, height |-> Height(img)] :
        k \in OcrRowKinds \cup {[level |-> 5, text |-> "ab", conf10 |-> 300]},
        w \in {0, Width(img)}}

\* the filter parameters of one call; ratios are <<numerator, denominator>>
OcrParamSets ==
    {[min_confidence |-> 30, min_box_height |-> 1, max_box_height_ratio |-> <<1, 1>>,
      min_box_width |-> 1, max_box_width_ratio |-> <<1, 1>>,
      min_aspect_ratio |-> <<1, 10>>, max_aspect_ratio |-> <<10, 1>>],
     [min_confidence |-> 30, min_box_height |-> 1, max_box_height_ratio |-> <<2, 3>>,
      min_box_width |-> 2, max_box_width_ratio |-> <<4, 5>>,
      min_aspect_ratio |-> <<1, 1>>, max_aspect_ratio |-> <<2, 1>>]}

\* what pytesseract.image_to_data can do
OcrEngineOutcomes == {"ok", "TesseractError", "RuntimeError", "OtherException"}

\* str.strip() != ""
NonBlank(text) == text \notin {"", " "}

\* int(float(conf)): truncation toward zero
IntOfFloat(conf10) == IF conf10 >= 0 THEN conf10 \div 10 ELSE -((-conf10) \div 10)

\* a filter whose upper bounds are exclusive
OcrBoxValidMutant(img, p, b) ==
    /\ b.level = 5
    /\ NonBlank(b.text)
    /\ IntOfFloat(b.conf10) >= p.min_confidence
    /\ b.width > 0 /\ b.height > 0
    /\ ~(b.width < p.min_box_width \/ b.height < p.min_box_height)
    /\ ~(\/ b.height * p.max_box_height_ratio[2] >= Height(img) * p.max_box_height_ratio[1]
         \/ b.width * p.max_box_width_ratio[2] >= Width(img) * p.max_box_width_ratio[1])
    /\ p.min_aspect_ratio[1] * b.height <= b.width * p.min_aspect_ratio[2]
    /\ b.width * p.max_aspect_ratio[2] < p.max_aspect_ratio[1] * b.height

\* lines 120-137: the row passes every filter and contributes to the crop
OcrBoxValid(img, p, b) ==
    /\ b.level = 5
    /\ NonBlank(b.text)
    /\ IntOfFloat(b.conf10) >= p.min_confidence
    /\ b.width > 0 /\ b.height > 0
    /\ ~(b.width < p.min_box_width \/ b.height < p.min_box_height)
    /\ ~(\/ b.height * p.max_box_height_ratio[2] > Height(img) * p.max_box_height_ratio[1]
         \/ b.width * p.max_box_width_ratio[2] > Width(img) * p.max_box_width_ratio[1])
    /\ p.min_aspect_ratio[1] * b.height <= b.width * p.min_aspect_ratio[2]
    /\ b.width * p.max_aspect_ratio[2] <= p.max_aspect_ratio[1] * b.height

OcrValidBoxes(img, p, rows) == {b \in rows : OcrBoxValid(img, p, b)}

\* lines 152-158: union of the valid boxes, padded and clamped
OcrCropRect(img, padding, valid) ==
    LET min_x == SetMin({b.left : b \in valid})
        min_y == SetMin({b.top : b \in valid})
        max_x_plus_w == SetMax({b.left + b.width : b \in valid})
        max_y_plus_h == SetMax({b.top + b.height : b \in valid})
    IN  [x1 |-> Max2(0, min_x - padding),
         y1 |-> Max2(0, min_y - padding),
         x2 |-> Min2(Width(img), max_x_plus_w + padding),
         y2 |-> Min2(Height(img), max_y_plus_h + padding)]

\* the crop rectangle the OCR trimmer would cut; None if it returns before
OcrCropBox(img, padding, p, rows) ==
    LET valid == OcrValidBoxes(img, p, rows)
    IN  IF valid = {} THEN None
        ELSE LET box == OcrCropRect(img, padding, valid)
             IN  IF box.x2 <= box.x1 \/ box.y2 <= box.y1 THEN None ELSE box

\* a returned 2-tuple (trimmed image, debug image)
Tuple2(main, debug) == [kind |-> "tuple", main |-> main, debug |-> debug]
DebugImage == [kind |-> "debug_image"]

\* lines 172-175: the TesseractError and RuntimeError handlers only print,
\* so the function falls off its end and returns a bare None
OcrEngineErrorReturn == None

\* the whole call (return_debug_cv_image = True, as the pipeline calls it)
trim_image_by_ocr_text_bounds(available, img_pil_input, padding, p, engine, rows) ==
    LET box == OcrCropBox(img_pil_input, padding, p, rows)
    IN  IF ~available THEN [ret |-> Tuple2(None, None), path |-> "unavailable"]
        ELSE IF engine \in {"TesseractError", "RuntimeError"}
            THEN [ret |-> OcrEngineErrorReturn, path |-> engine]
        ELSE IF engine = "OtherException"
            THEN [ret |-> Tuple2(None, None), path |-> engine]
        ELSE IF rows = {}
            THEN [ret |-> Tuple2(None, None), path |-> "no_boxes"]
        ELSE IF OcrValidBoxes(img_pil_input, p, rows) = {}
            THEN [ret |-> Tuple2(None, DebugImage), path |-> "no_valid_boxes"]
        ELSE IF box = None
            THEN [ret |-> Tuple2(None, DebugImage), path |-> "invalid_crop"]
        ELSE [ret |-> Tuple2(Crop(img_pil_input, box.x1, box.y1, box.x2, box.y2), DebugImage),
              path |-> "cropped"]

(***************************************************************************)
(* Finishing: base_image_utils.resize_image_pillow                         *)
(***************************************************************************)
\* int(side * (max_total_pixels / current_pixels) ** 0.5) in exact
\* arithmetic: the largest n with n*n*current_pixels <= side*side*max
ScaledSide(side, max_total_pixels, current_pixels) ==
    SetMax({n \in 0 .. side : n * n * current_pixels <= side * side * max_total_pixels})

\* the (width, height) of resize_image_pillow(img, max_total_pixels)
ResizedSize(width, height, max_total_pixels) ==
    LET current_pixels == width * height
        new_width == ScaledSide(width, max_total_pixels, current_pixels)
        new_height == ScaledSide(height, max_total_pixels, current_pixels)
    IN  IF max_total_pixels <= 0 THEN <<width, height>>
        ELSE IF current_pixels > max_total_pixels
            THEN IF new_width >= 1 /\ new_height >= 1
                    THEN <<new_width, new_height>>
                    ELSE <<width, height>>
        ELSE <<width, height>>

(***************************************************************************)
(* Binarisation: opencv_pipeline_utils.apply_adaptive_threshold and        *)
(* apply_morphological_operation                                           *)
(***************************************************************************)
\* the block sizes and kernel sizes requested
RequestedSizes == (-MaxKernel) .. MaxKernel

MorphOperations == {"open", "close", "dilate"}

MorphIterations == {0, 1, 2}

\* whether the OpenCV call raises
CvFaults == {"none", "cv_raises"}

\* opencv_pipeline_utils.py lines 64-68
NormalizedBlockSize(block_size) ==
    LET current_block_size == IF block_size < 3 THEN 3 ELSE block_size
    IN  IF current_block_size % 2 = 0 THEN current_block_size + 1 ELSE current_block_size

\* lines 51-77: the block size cv2.adaptiveThreshold is called with and
\* what the function returns
apply_adaptive_threshold(block_size, fault) ==
    [cv_called |-> TRUE, called_with |-> NormalizedBlockSize(block_size),
     ret |-> IF fault = "cv_raises" THEN None ELSE [kind |-> "array"]]

\* a kernel size used as requested
NormalizedKernelSizeMutant(kernel_size) == kernel_size

\* line 97
NormalizedKernelSize(kernel_size) ==
    IF kernel_size % 2 # 0 THEN kernel_size ELSE kernel_size + 1

\* lines 79-113: whether cv2.morphologyEx is called, the kernel size it is
\* called with and what the function returns
apply_morphological_operation(operation, kernel_size, iterations, fault) ==
    IF ~(kernel_size > 0) THEN [cv_called |-> FALSE, ret |-> None]
    ELSE IF ~(iterations >= 1) THEN [cv_called |-> FALSE, ret |-> None]
    ELSE IF operation \notin {"open", "close"} THEN [cv_called |-> FALSE, ret |-> None]
    ELSE [cv_called |-> TRUE, called_with |-> NormalizedKernelSize(kernel_size),
          ret |-> IF fault = "cv_raises" THEN None ELSE [kind |-> "array"]]

(***************************************************************************)
(* Orientation: base_image_utils.correct_image_orientation,                *)
(* determine_90deg_rotation_by_projection_scoring,                         *)
(* orient_image_comprehensively and                                        *)
(* ocr_processors.get_text_orientation_with_tesseract                      *)
(*                                                                         *)
(* A picture is a page as the orientation code sees it: its size, the      *)
(* pixels adaptive thresholding turns white (ink), its EXIF Orientation    *)
(* tag (0: no tag) and how its text stands: the page as written, mirrored  *)
(* left-right if flip, then turned counter-clockwise by rot degrees.       *)
(***************************************************************************)
Angles == {0, 90, 180, 270}

Picture(w, h, ink, exif, rot, flip) ==
    [w |-> w, h |-> h, ink |-> ink, exif |-> exif, rot |-> rot, flip |-> flip]

\* PIL: img.rotate(angle, expand=True) for a multiple of 90 degrees, which
\* Pillow carries out as a transpose; counter-clockwise.  Image._new copies
\* img.info, so the result keeps the EXIF block of img.
Rotate(img, angle) ==
    LET a == angle % 360
    IN  IF a = 0 THEN img
        ELSE IF a = 90
            THEN Picture(img.h, img.w, {<<px[2], img.w - 1 - px[1]>> : px \in img.ink},
                         img.exif, (img.rot + 90) % 360, img.flip)
        ELSE IF a = 180
            THEN Picture(img.w, img.h,
                         {<<img.w - 1 - px[1], img.h - 1 - px[2]>> : px \in img.ink},
                         img.exif, (img.rot + 180) % 360, img.flip)
        ELSE Picture(img.h, img.w, {<<img.h - 1 - px[2], px[1]>> : px \in img.ink},
                     img.exif, (img.rot + 270) % 360, img.flip)

\* PIL: img.transpose(Image.Transpose.FLIP_LEFT_RIGHT)
FlipLeftRight(img) ==
    Picture(img.w, img.h, {<<img.w - 1 - px[1], px[2]>> : px \in img.ink},
            img.exif, (360 - img.rot) % 360, ~img.flip)

\* get_image_orientation: the Orientation tag, None (0) without one
get_image_orientation(img) == img.exif

\* lines 32-51
correct_image_orientation(img) ==
    LET orientation == get_image_orientation(img)
    IN  IF orientation = 2 THEN FlipLeftRight(img)
        ELSE IF orientation = 3 THEN Rotate(img, 180)
        ELSE IF orientation = 4 THEN FlipLeftRight(Rotate(img, 180))
        ELSE IF orientation = 5 THEN FlipLeftRight(Rotate(img, -90))
        ELSE IF orientation = 6 THEN Rotate(img, -90)
        ELSE IF orientation = 7 THEN FlipLeftRight(Rotate(img, 90))
        ELSE IF orientation = 8 THEN Rotate(img, 90)
        ELSE img

\* f[0] + ... + f[n-1]
RECURSIVE Sum(_, _)
Sum(f, n) == IF n = 0 THEN 0 ELSE f[n - 1] + Sum(f, n - 1)

\* calculate_projection_profile_score: np.var of the row sums of the binary
\* image, as the rational <<numerator, denominator>>; 0.0 for an empty image
calculate_projection_profile_score(img) ==
    LET projection == [y \in 0 .. (img.h - 1) |->
                          Cardinality({px \in img.ink : px[2] = y})]
        squares == [y \in 0 .. (img.h - 1) |-> projection[y] * projection[y]]
        total == Sum(projection, img.h)
    IN  IF img.w = 0 \/ img.h = 0 THEN <<0, 1>>
        ELSE <<img.h * Sum(squares, img.h) - total * total, img.h * img.h>>

\* score > max_score on rationals; max_score None stands for -inf
ScoreGreater(score, max_score) ==
    max_score = None \/ score[1] * max_score[2] > max_score[1] * score[2]

\* the loop of lines 187-214 over the angles still to try; an angle in
\* failed is one whose grayscale conversion or thresholding fails (continue)
RECURSIVE ProjectionScan(_, _, _, _, _)
ProjectionScan(img, options, failed, best_angle, max_score) ==
    IF options = <<>> THEN best_angle
    ELSE LET angle_option == Head(options)
             score == calculate_projection_profile_score(Rotate(img, angle_option))
         IN  IF angle_option \notin failed /\ ScoreGreater(score, max_score)
                THEN ProjectionScan(img, Tail(options), failed, angle_option, score)
                ELSE ProjectionScan(img, Tail(options), failed, best_angle, max_score)

\* lines 175-217
determine_90deg_rotation_by_projection_scoring(img, failed) ==
    ProjectionScan(img, <<0, 90, 180, 270>>, failed, 0, None)

\* the loop of ocr_processors.py lines 30-49; chars[r] is the number of
\* characters image_to_string reads on the page when its text stands at r
RECURSIVE OcrScan(_, _, _, _, _)
OcrScan(img, options, chars, best_angle, max_chars) ==
    IF options = <<>> THEN best_angle
    ELSE LET angle == Head(options)
             num_chars == chars[(img.rot + angle) % 360]
         IN  IF num_chars > max_chars
                THEN OcrScan(img, Tail(options), chars, angle, num_chars)
                ELSE OcrScan(img, Tail(options), chars, best_angle, max_chars)

\* ocr_processors.py lines 16-52
get_text_orientation_with_tesseract(available, img, chars) ==
    IF ~available THEN 0 ELSE OcrScan(img, <<0, 90, 180, 270>>, chars, 0, -1)

\* a decision that lets the OCR estimate win
final_90_degree_rotationMutant(projection_rotation_angle, ocr_rotation_angle) ==
    IF ocr_rotation_angle # 0 THEN ocr_rotation_angle ELSE projection_rotation_angle

\* lines 259-280
final_90_degree_rotation(projection_rotation_angle, ocr_rotation_angle) ==
    LET proj_suggests_rotation == projection_rotation_angle # 0
        ocr_suggests_rotation == ocr_rotation_angle # 0
    IN  IF proj_suggests_rotation /\ ocr_suggests_rotation
            THEN projection_rotation_angle
        ELSE IF proj_suggests_rotation THEN projection_rotation_angle
        ELSE IF ocr_suggests_rotation THEN ocr_rotation_angle
        ELSE 0

\* lines 219-291: the image returned, with the estimates and the decision
orient_image_comprehensively(available, img_pil_input, chars, failed) ==
    LET img_after_exif == correct_image_orientation(img_pil_input)
        projection_rotation_angle ==
            determine_90deg_rotation_by_projection_scoring(img_after_exif, failed)
        ocr_rotation_angle ==
            get_text_orientation_with_tesseract(available, img_after_exif, chars)
        final == final_90_degree_rotation(projection_rotation_angle, ocr_rotation_angle)
    IN  [img |-> IF final # 0 THEN Rotate(img_after_exif, final) ELSE img_after_exif,
         img_after_exif |-> img_after_exif,
         projection_rotation_angle |-> projection_rotation_angle,
         ocr_rotation_angle |-> ocr_rotation_angle,
         final_90_degree_rotation |-> final]

(***************************************************************************)
(* Orchestrator: image_processor.preprocess_uploaded_image                 *)
(***************************************************************************)
\* trimming_strategy_override is None
NoStrategy == "<None>"

NamedStrategies ==
    {"ocr_then_contour", "contour_then_ocr", "ocr_only", "contour_only", "none"}

\* two strategy strings outside the five named ones
UnknownStrategies == {"ocr_first", "bogus"}

Strategies == NamedStrategies \cup UnknownStrategies

\* values of image_processing.default_trimming_strategy in the configuration
DefaultStrategies == {"ocr_then_contour", "none"}

\* values of max_pixels / default_max_pixels_for_resizing
MaxPixelValues == {2, (MaxDim - 1) * (MaxDim - 1)}

\* Python: "ocr" in s, for the strategy strings of the model
ContainsOcr(s) == s \in {"ocr_then_contour", "contour_then_ocr", "ocr_only", "ocr_first"}

\* line 220
EffectiveStrategy(override, default) == IF override # NoStrategy THEN override ELSE default

\* lines 269-287: whether the OCR trimmer is run
ExecuteOcrTrimMutant(available, override, tuning_apply, effective) == tuning_apply

ExecuteOcrTrim(available, override, tuning_apply, effective) ==
    IF available
        THEN IF override = NoStrategy THEN tuning_apply ELSE ContainsOcr(effective)
        ELSE FALSE

Selection(main, binary, log) == [main |-> main, binary |-> binary, log |-> log]

\* lines 353-363 and 398-409: OCR first, contour second, oriented image last
OcrThenContour(contour_main, contour_binary, ocr_main, oriented, tag) ==
    IF Truthy(ocr_main) THEN Selection(ocr_main, None, "ocr" \o tag)
    ELSE IF Truthy(contour_main)
        THEN Selection(contour_main, contour_binary, "contour (ocr failed or disabled)" \o tag)
    ELSE Selection(oriented, None, "no trimming (both failed or disabled)" \o tag)

\* a selection that trusts the OCR result without testing it
SelectByStrategyMutant(strategy, contour_main, contour_binary, ocr_main, oriented) ==
    IF strategy \in {"contour_then_ocr", "contour_only"}
        THEN Selection(contour_main, contour_binary, "contour")
    ELSE IF strategy = "none"
        THEN Selection(contour_main, contour_binary, "no trimming (strategy none)")
    ELSE Selection(ocr_main, None, "ocr")

\* lines 353-409
SelectByStrategy(strategy, contour_main, contour_binary, ocr_main, oriented) ==
    IF strategy = "ocr_then_contour"
        THEN OcrThenContour(contour_main, contour_binary, ocr_main, oriented, "")
    ELSE IF strategy = "contour_then_ocr"
        THEN IF Truthy(contour_main)
                THEN Selection(contour_main, contour_binary, "contour")
             ELSE IF Truthy(ocr_main)
                THEN Selection(ocr_main, None, "ocr (contour failed or disabled)")
             ELSE Selection(oriented, None, "no trimming (both failed or disabled)")
    ELSE IF strategy = "ocr_only"
        THEN IF Truthy(ocr_main)
                THEN Selection(ocr_main, None, "ocr (ocr only)")
                ELSE Selection(oriented, None, "no trimming (ocr only failed or disabled)")
    ELSE IF strategy = "contour_only"
        THEN IF Truthy(contour_main)
                THEN Selection(contour_main, contour_binary, "contour (contour only)")
                ELSE Selection(oriented, None, "no trimming (contour only failed or disabled)")
    ELSE IF strategy = "none"
        THEN Selection(oriented, None, "no trimming (strategy none)")
    ELSE OcrThenContour(contour_main, contour_binary, ocr_main, oriented, " (unknown strategy)")

\* lines 411-415: the guard against a missing selection
CriticalFallback(sel, oriented) ==
    IF sel.main = None
        THEN Selection(oriented, None, sel.log \o " (critical fallback to oriented)")
        ELSE sel

\* an arbiter that trusts the OCR result and has no guard
SelectTrimResultMutant(strategy, contour_main, contour_binary, ocr_main, oriented) ==
    SelectByStrategyMutant(strategy, contour_main, contour_binary, ocr_main, oriented)

\* lines 343-416: the strategy arbiter
SelectTrimResult(strategy, contour_main, contour_binary, ocr_main, oriented) ==
    CriticalFallback(
        SelectByStrategy(strategy, contour_main, contour_binary, ocr_main, oriented),
        oriented)

(***************************************************************************)
(* Formats: MIME resolution and encoding                                   *)
(***************************************************************************)
\* output_format is None
NoFormat == "<None>"

\* image_processing.default_output_format, upper-cased at import
DEFAULT_OUTPUT_FORMAT == "JPEG"

\* the defaults of supported_mime_types and convertable_mime_types
SUPPORTED_MIME_TYPES == {"image/png", "image/jpeg", "image/webp"}
CONVERTABLE_MIME_TYPES == ("image/gif" :> "image/png") @@ ("image/bmp" :> "image/png")

\* the MIME types line 183 lets through to the LLM
LlmMimeTypes == {"image/jpeg", "image/png", "image/webp", "image/heic", "image/heif"}

\* the mime_type arguments of the model
MimeTypes ==
    {"image/png", "image/jpeg", "image/webp", "image/gif", "IMAGE/BMP", "image/tiff",
     "Application/PDF"}

\* the output_format arguments of the model
OutputFormats == {NoFormat, "JPEG", "PNG", "jpeg", "WEBP"}

\* str.lower() on the MIME types of the model
Lower(text) ==
    IF text = "IMAGE/BMP" THEN "image/bmp"
    ELSE IF text = "Application/PDF" THEN "application/pdf"
    ELSE text

\* str.upper() on the formats of the model
Upper(text) == IF text = "jpeg" THEN "JPEG" ELSE text

\* line 159
EffectiveOutputFormat(format) ==
    Upper(IF format # NoFormat THEN format ELSE DEFAULT_OUTPUT_FORMAT)

\* a check that lets every MIME type through
AcceptedMimeMutant(original_mime_type) == TRUE

\* lines 168-180: the MIME types that are not rejected
AcceptedMime(original_mime_type) ==
    \/ original_mime_type \in DOMAIN CONVERTABLE_MIME_TYPES
    \/ original_mime_type \in SUPPORTED_MIME_TYPES

\* a resolution that keeps the requested output format for converted types
ResolveFormatsMutant(original_mime_type, effective_output_format) ==
    LET converted == original_mime_type \in DOMAIN CONVERTABLE_MIME_TYPES
    IN  [mime_type_for_llm |-> IF converted THEN CONVERTABLE_MIME_TYPES[original_mime_type]
                               ELSE original_mime_type,
         target_format_for_final_bytes |-> effective_output_format]

\* lines 164-188: the MIME type reported to the LLM and the format of the
\* display bytes
ResolveFormats(original_mime_type, effective_output_format) ==
    LET converted == original_mime_type \in DOMAIN CONVERTABLE_MIME_TYPES
        mapped == IF converted THEN CONVERTABLE_MIME_TYPES[original_mime_type]
                  ELSE original_mime_type
        first == IF ~converted
                    THEN [mime_type_for_llm |-> mapped,
                          target_format_for_final_bytes |-> effective_output_format]
                 ELSE IF mapped = "image/png"
                    THEN [mime_type_for_llm |-> mapped,
                          target_format_for_final_bytes |-> "PNG"]
                 ELSE IF mapped = "image/jpeg"
                    THEN [mime_type_for_llm |-> mapped,
                          target_format_for_final_bytes |-> "JPEG"]
                 ELSE [mime_type_for_llm |-> "image/png",
                       target_format_for_final_bytes |-> "PNG"]
    IN  IF first.mime_type_for_llm \notin LlmMimeTypes
            THEN [mime_type_for_llm |-> "image/png",
                  target_format_for_final_bytes |-> "PNG"]
            ELSE first

\* base_image_utils.py lines 100-126: the bytes of an image of the given
\* size and mode, None for a format other than JPEG and PNG or when
\* Image.save raises
image_to_bytes(size, mode, target_format, saved) ==
    IF target_format = "JPEG"
        THEN IF saved
                THEN [kind |-> "bytes", format |-> "JPEG", size |-> size,
                      mode |-> IF mode \in {"RGB", "L"} THEN mode ELSE "RGB"]
                ELSE None
    ELSE IF target_format = "PNG"
        THEN IF saved
                THEN [kind |-> "bytes", format |-> "PNG", size |-> size, mode |-> mode]
                ELSE None
    ELSE None

\* an error dictionary that drops the frames collected
ErrorOutcomeMutant(error, frames) == [error |-> error, debug_images |-> <<>>]

\* lines 155, 180, 454, 560-572: the dictionary returned on failure
ErrorOutcome(error, frames) == [error |-> error, debug_images |-> frames]

\* a result that always carries an ocr_input_image
WithOcrInputImageMutant(outcome, final_ocr_input_bytes) ==
    [key \in DOMAIN outcome \cup {"ocr_input_image"} |->
        IF key = "ocr_input_image"
            THEN [mime_type |-> "image/png", data |-> final_ocr_input_bytes]
            ELSE outcome[key]]

\* lines 552-557: ocr_input_image is added only when its bytes exist
WithOcrInputImage(outcome, final_ocr_input_bytes) ==
    IF final_ocr_input_bytes # None
        THEN [key \in DOMAIN outcome \cup {"ocr_input_image"} |->
                IF key = "ocr_input_image"
                    THEN [mime_type |-> "image/png", data |-> final_ocr_input_bytes]
                    ELSE outcome[key]]
        ELSE outcome

(***************************************************************************)
(* State                                                                   *)
(***************************************************************************)
VARIABLES
    \* module level
    PYTESSERACT_AVAILABLE,          \* ocr_processors.PYTESSERACT_AVAILABLE
    DEFAULT_TRIMMING_STRATEGY,      \* image_processor.DEFAULT_TRIMMING_STRATEGY
    \* the Python process: objects that are shared by reference
    dict_objects,                   \* the dict objects alive, by identity
    list_objects,                   \* the list objects alive, by identity
    params_call,                    \* a call seen from its parameter dictionaries
    session_state,                  \* st.session_state of each browser session
    session_call,                   \* the reset_for_new_session that just returned, if any
    \* one call of preprocess_uploaded_image
    pc,                             \* position in the call
    uploaded_file_data,
    mime_type,
    output_format,
    effective_grayscale,
    trimming_strategy_override,
    should_apply_contour_trim,
    should_apply_ocr_trim_tuning,
    effective_max_pixels,
    current_cv_trim_params,         \* the threshold parameters of the call
    mime_type_for_llm,
    target_format_for_final_bytes,
    img_oriented,
    img_oriented_pixels,            \* the pixels of img_oriented
    contour_main,                   \* processing_results["contour_trim"]["main_image"]
    contour_binary,                 \* processing_results["contour_trim"]["ocr_binary"]
    contour_path,                   \* the return taken in trim_image_by_contours
    execute_ocr_trim,
    ocr_trim_calls,                 \* calls of trim_image_by_ocr_text_bounds so far
    ocr_main,                       \* processing_results["ocr_trim"]["main_image"]
    ocr_path,                       \* the return taken in trim_image_by_ocr_text_bounds
    img_after_main_processing_step,
    ocr_binary_intermediate,
    selected_trim_method_log,
    display_size,                   \* img_display_vision.size at encoding
    debug_images,                   \* the labels of the frames collected
    result,                         \* the kind of dictionary returned
    returned,                       \* the dictionary returned
    \* one call of a trimmer on its own
    trim_call,                      \* the function called and its arguments
    trim_ret                        \* what it returned

objectVars == <<dict_objects, list_objects, params_call, session_state, session_call>>

moduleVars == <<PYTESSERACT_AVAILABLE, DEFAULT_TRIMMING_STRATEGY, objectVars>>

callVars == <<uploaded_file_data, mime_type, output_format, effective_grayscale>>

paramVars == <<trimming_strategy_override, should_apply_contour_trim,
               should_apply_ocr_trim_tuning, effective_max_pixels,
               current_cv_trim_params>>

formatVars == <<mime_type_for_llm, target_format_for_final_bytes>>

orientVars == <<img_oriented, img_oriented_pixels>>

contourVars == <<contour_main, contour_binary, contour_path>>

ocrVars == <<execute_ocr_trim, ocr_trim_calls, ocr_main, ocr_path>>

selectVars == <<img_after_main_processing_step, ocr_binary_intermediate,
                selected_trim_method_log>>

finishVars == <<display_size, result, returned>>

trimVars == <<trim_call, trim_ret>>

vars == <<moduleVars, pc, callVars, paramVars, formatVars, orientVars, contourVars,
          ocrVars, selectVars, finishVars, debug_images, trimVars>>

\* a variable not yet assigned in the call
Unset == [kind |-> "unset"]

effective_trimming_strategy ==
    EffectiveStrategy(trimming_strategy_override, DEFAULT_TRIMMING_STRATEGY)

effective_output_format == EffectiveOutputFormat(output_format)

\* the image every call of the pipeline model works on after
\* correct_image_orientation
PipelineImage == OrientedImage(<<MaxDim - 1, MaxDim - 1>>)

\* pages as written, of the size of PipelineImage: each row a text line
\* (all ink) or blank
PipelinePages ==
    {Picture(MaxDim - 1, MaxDim - 1, (0 .. (MaxDim - 2)) \X rows, 0, 0, FALSE) :
        rows \in SUBSET (0 .. (MaxDim - 2))}

\* image files: a page stored turned by some angle, with some EXIF
\* Orientation tag (0: no tag)
PipelineUploads ==
    {[kind |-> "image",
      picture |-> [Rotate(page, angle) EXCEPT !.exif = tag]] :
        page \in PipelinePages, angle \in Angles, tag \in 0 .. 8}

\* an upright page without a tag
PlainUpload ==
    [kind |-> "image",
     picture |-> Picture(MaxDim - 1, MaxDim - 1, (0 .. (MaxDim - 2)) \X {0}, 0, 0, FALSE)]

\* b"", bytes Image.open rejects, and bytes over Image.MAX_IMAGE_PIXELS
EmptyData == [kind |-> "empty"]
BadData == {[kind |-> "undecodable"], [kind |-> "decompression_bomb"]}

NoTrimCall == [fn |-> "none"]

\* lines 62-63: the defaults of adaptive_thresh_block_size and
\* adaptive_thresh_c
DefaultThresholdParams == [adaptive_thresh_block_size |-> 11, adaptive_thresh_c |-> 7]

\* the threshold parameters a call can override them with
ThresholdParamSets ==
    {DefaultThresholdParams, [adaptive_thresh_block_size |-> 4, adaptive_thresh_c |-> 2]}

(***************************************************************************)
(* Pipeline: preprocess_uploaded_image is called (line 92)                 *)
(***************************************************************************)
\* calls that vary the trimming strategy and flags, on a plain PNG upload
StrategyCalls ==
    /\ PYTESSERACT_AVAILABLE \in BOOLEAN
    /\ DEFAULT_TRIMMING_STRATEGY \in DefaultStrategies
    /\ trimming_strategy_override \in Strategies \cup {NoStrategy}
    /\ should_apply_contour_trim \in BOOLEAN
    /\ should_apply_ocr_trim_tuning \in BOOLEAN
    /\ effective_max_pixels \in MaxPixelValues
    /\ current_cv_trim_params = DefaultThresholdParams
    /\ uploaded_file_data = PlainUpload
    /\ mime_type = "image/png"
    /\ output_format = NoFormat
    /\ effective_grayscale = TRUE

\* calls that vary the MIME type, the output format and the bytes
FormatCalls ==
    /\ PYTESSERACT_AVAILABLE = TRUE
    /\ DEFAULT_TRIMMING_STRATEGY = "ocr_then_contour"
    /\ trimming_strategy_override \in {NoStrategy, "contour_only"}
    /\ should_apply_contour_trim \in BOOLEAN
    /\ should_apply_ocr_trim_tuning = FALSE
    /\ effective_max_pixels \in MaxPixelValues
    /\ current_cv_trim_params = DefaultThresholdParams
    /\ uploaded_file_data \in {EmptyData, PlainUpload} \cup BadData
    /\ mime_type \in MimeTypes
    /\ output_format \in OutputFormats
    /\ effective_grayscale \in BOOLEAN

\* calls that vary the stored orientation of the page
OrientationCalls ==
    /\ PYTESSERACT_AVAILABLE = TRUE
    /\ DEFAULT_TRIMMING_STRATEGY = "ocr_then_contour"
    /\ trimming_strategy_override = "none"
    /\ should_apply_contour_trim = FALSE
    /\ should_apply_ocr_trim_tuning = FALSE
    /\ effective_max_pixels = (MaxDim - 1) * (MaxDim - 1)
    /\ current_cv_trim_params \in ThresholdParamSets
    /\ uploaded_file_data \in PipelineUploads
    /\ mime_type = "image/jpeg"
    /\ output_format = NoFormat
    /\ effective_grayscale = FALSE

\* no shared object is followed
NoObjects ==
    /\ dict_objects = <<>>
    /\ list_objects = <<>>
    /\ params_call = [pc |-> "no_call"]
    /\ session_state = <<>>
    /\ session_call = [fn |-> "none"]

Init ==
    /\ NoObjects
    /\ StrategyCalls \/ FormatCalls \/ OrientationCalls
    /\ pc = "called"
    /\ mime_type_for_llm = "" /\ target_format_for_final_bytes = Unset
    /\ img_oriented = None /\ img_oriented_pixels = None
    /\ contour_main = None /\ contour_binary = None /\ contour_path = "pending"
    /\ execute_ocr_trim = FALSE /\ ocr_main = None /\ ocr_path = "pending"
    /\ ocr_trim_calls = 0
    /\ img_after_main_processing_step = None
    /\ ocr_binary_intermediate = None
    /\ selected_trim_method_log = "undecided"
    /\ display_size = Unset
    /\ debug_images = <<>>
    /\ result = "pending"
    /\ returned = Unset
    /\ trim_call = NoTrimCall /\ trim_ret = Unset

\* lines 154-155: no bytes
RejectEmptyData ==
    /\ pc = "called"
    /\ uploaded_file_data = EmptyData
    /\ returned' = ErrorOutcome("no image data", debug_images)
    /\ result' = "error_no_data"
    /\ pc' = "returned_early"
    /\ UNCHANGED <<moduleVars, callVars, paramVars, formatVars, orientVars, contourVars,
                   ocrVars, selectVars, display_size, debug_images, trimVars>>

\* lines 164-180: the MIME type is in neither set
RejectUnsupportedMime ==
    /\ pc = "called"
    /\ uploaded_file_data # EmptyData
    /\ ~AcceptedMime(Lower(mime_type))
    /\ returned' = ErrorOutcome("unsupported input format", debug_images)
    /\ result' = "error_unsupported_format"
    /\ pc' = "returned_early"
    /\ UNCHANGED <<moduleVars, callVars, paramVars, formatVars, orientVars, contourVars,
                   ocrVars, selectVars, display_size, debug_images, trimVars>>

\* lines 157-221: the formats and parameters of the call are resolved
ResolveParameters ==
    /\ pc = "called"
    /\ uploaded_file_data # EmptyData
    /\ AcceptedMime(Lower(mime_type))
    /\ LET formats == ResolveFormats(Lower(mime_type), effective_output_format)
       IN  /\ mime_type_for_llm' = formats.mime_type_for_llm
           /\ target_format_for_final_bytes' = formats.target_format_for_final_bytes
    /\ pc' = "resolved"
    /\ UNCHANGED <<moduleVars, callVars, paramVars, orientVars, contourVars, ocrVars,
                   selectVars, finishVars, debug_images, trimVars>>

\* lines 225, 560-572: Image.open raises (DecompressionBombError, or
\* UnidentifiedImageError caught by the last handler)
OpenRaises ==
    /\ pc = "resolved"
    /\ uploaded_file_data \in BadData
    /\ returned' = ErrorOutcome(uploaded_file_data.kind, debug_images)
    /\ result' = "error_open"
    /\ pc' = "returned_early"
    /\ UNCHANGED <<moduleVars, callVars, paramVars, formatVars, orientVars, contourVars,
                   ocrVars, selectVars, display_size, debug_images, trimVars>>

\* lines 236-237: the condition of debug frame 1
OrientationFrame(img_pil, oriented) ==
    IF \/ <<oriented.w, oriented.h>> # <<img_pil.w, img_pil.h>>
       \/ img_pil.exif \notin {0, 1}
        THEN <<"1. after orientation correction">>
        ELSE <<>>

\* lines 225-240: the image is opened and its orientation corrected
OpenAndOrient ==
    /\ pc = "resolved"
    /\ uploaded_file_data.kind = "image"
    /\ LET img_pil == uploaded_file_data.picture
           oriented == correct_image_orientation(img_pil)
       IN  /\ img_oriented_pixels' = oriented
           /\ img_oriented' = OrientedImage(<<oriented.w, oriented.h>>)
           /\ debug_images' = debug_images \o <<"0. initial load">>
                                \o OrientationFrame(img_pil, oriented)
    /\ pc' = "oriented"
    /\ UNCHANGED <<moduleVars, callVars, paramVars, formatVars, contourVars, ocrVars,
                   selectVars, finishVars, trimVars>>

\* every return of the contour trimmer on img that some parameters
\* (padding, min_contour_area_ratio) and some behaviour of OpenCV produce
ContourTrimReturns ==
    [img \in {PipelineImage} |->
        {trim_image_by_contours(img, padding, ratio, "none", contours) :
            padding \in PadValues, ratio \in AreaRatios,
            contours \in SubsetsUpTo(ContourPool(img), MaxContours)}
        \cup
        {trim_image_by_contours(img, 0, <<0, 1>>, fault, {}) :
            fault \in ContourFaults \ {"none"}}]

\* every return of the OCR trimmer on img that some parameters and some
\* behaviour of Tesseract produce
OcrTrimReturns ==
    [available \in BOOLEAN, img \in {PipelineImage} |->
        {trim_image_by_ocr_text_bounds(available, img, padding, p, "ok", rows) :
            padding \in PadValues, p \in OcrParamSets,
            rows \in SubsetsUpTo(OcrRows(img), MaxBoxes)}
        \cup
        {trim_image_by_ocr_text_bounds(available, img, 0, p, engine, {}) :
            p \in OcrParamSets, engine \in OcrEngineOutcomes \ {"ok"}}]

\* lines 247-263: contour trimming is applied; the frames its collector
\* holds are one entry of debug_images
RunContourTrim ==
    /\ pc = "oriented"
    /\ should_apply_contour_trim
    /\ \E r \in ContourTrimReturns[img_oriented] :
        /\ contour_main' = r.main
        /\ contour_binary' = r.binary
        /\ contour_path' = r.path
    /\ debug_images' = debug_images \o <<"ContourTrim frames">>
    /\ pc' = "contour_done"
    /\ UNCHANGED <<moduleVars, callVars, paramVars, formatVars, orientVars, ocrVars,
                   selectVars, finishVars, trimVars>>

\* lines 264-267: contour trimming is skipped by the apply flag
SkipContourTrim ==
    /\ pc = "oriented"
    /\ ~should_apply_contour_trim
    /\ contour_main' = img_oriented
    /\ contour_binary' = None
    /\ contour_path' = "skipped"
    /\ pc' = "contour_done"
    /\ UNCHANGED <<moduleVars, callVars, paramVars, formatVars, orientVars, ocrVars,
                   selectVars, finishVars, debug_images, trimVars>>

\* lines 319-333: the frames of the OCR trimming stage
OcrTrimFrames(ret) ==
    (IF ret.debug # None THEN <<"OCRTrim detail">> ELSE <<>>)
    \o (IF Truthy(ret.main) THEN <<"OCRTrim final crop">> ELSE <<>>)

\* lines 289-337: the OCR trimmer runs and returns a 2-tuple
RunOcrTrim ==
    /\ pc = "contour_done"
    /\ ExecuteOcrTrim(PYTESSERACT_AVAILABLE, trimming_strategy_override,
                      should_apply_ocr_trim_tuning, effective_trimming_strategy)
    /\ \E r \in OcrTrimReturns[PYTESSERACT_AVAILABLE, img_oriented] :
        /\ r.ret # None
        /\ ocr_main' = r.ret.main
        /\ ocr_path' = r.path
        /\ debug_images' = debug_images \o OcrTrimFrames(r.ret)
    /\ execute_ocr_trim' = TRUE
    /\ ocr_trim_calls' = ocr_trim_calls + 1
    /\ pc' = "ocr_done"
    /\ UNCHANGED <<moduleVars, callVars, paramVars, formatVars, orientVars, contourVars,
                   selectVars, finishVars, trimVars>>

\* line 305: the trimmer returned a bare None; unpacking it into two names
\* raises TypeError, which the handler at lines 568-572 turns into an error
\* dictionary
RunOcrTrimUnpackRaises ==
    /\ pc = "contour_done"
    /\ ExecuteOcrTrim(PYTESSERACT_AVAILABLE, trimming_strategy_override,
                      should_apply_ocr_trim_tuning, effective_trimming_strategy)
    /\ \E r \in OcrTrimReturns[PYTESSERACT_AVAILABLE, img_oriented] :
        /\ r.ret = None
        /\ ocr_path' = r.path
    /\ execute_ocr_trim' = TRUE
    /\ ocr_trim_calls' = ocr_trim_calls + 1
    /\ result' = "error_exception"
    /\ returned' = ErrorOutcome("TypeError", debug_images)
    /\ pc' = "done"
    /\ UNCHANGED <<moduleVars, callVars, paramVars, formatVars, orientVars, contourVars,
                   ocr_main, selectVars, display_size, debug_images, trimVars>>

\* lines 338-341: the OCR trimmer is not run
SkipOcrTrim ==
    /\ pc = "contour_done"
    /\ ~ExecuteOcrTrim(PYTESSERACT_AVAILABLE, trimming_strategy_override,
                       should_apply_ocr_trim_tuning, effective_trimming_strategy)
    /\ execute_ocr_trim' = FALSE
    /\ ocr_trim_calls' = ocr_trim_calls
    /\ ocr_main' = None
    /\ ocr_path' = "not_run"
    /\ pc' = "ocr_done"
    /\ UNCHANGED <<moduleVars, callVars, paramVars, formatVars, orientVars, contourVars,
                   selectVars, finishVars, debug_images, trimVars>>

\* lines 343-416: the arbiter
SelectMainImage ==
    /\ pc = "ocr_done"
    /\ LET sel == SelectTrimResult(effective_trimming_strategy, contour_main,
                                   contour_binary, ocr_main, img_oriented)
       IN  /\ img_after_main_processing_step' = sel.main
           /\ ocr_binary_intermediate' = sel.binary
           /\ selected_trim_method_log' = sel.log
    /\ pc' = "selected"
    /\ UNCHANGED <<moduleVars, callVars, paramVars, formatVars, orientVars, contourVars,
                   ocrVars, finishVars, debug_images, trimVars>>

\* the ways the binarisation of the main image for OCR ends (lines 471-486)
Binarisations == {"ok", "gray_fail", "thresh_fail"}

\* lines 418-445: the display image at encoding and the frames of its
\* conversion to RGB, to grayscale and to the pixel budget
DisplayImage(main, grayscale, max_pixels) ==
    LET size == ResizedSize(Width(main), Height(main), max_pixels)
    IN  [size |-> size,
         mode |-> IF grayscale THEN "L" ELSE "RGB",
         frames |->
            (IF main.mode # "RGB" THEN <<"2. display RGB">> ELSE <<>>)
            \o (IF grayscale THEN <<"3. display grayscale">> ELSE <<>>)
            \o (IF size # <<Width(main), Height(main)>>
                    THEN <<"4. display resized">> ELSE <<>>)]

\* the image re-binarised although the arbiter supplied a binary crop
OcrSourceMutant(binary, binarise, params) ==
    IF binarise = "ok"
        THEN [source |-> "main image, OpenCV binarised",
              block_size |-> NormalizedBlockSize(params.adaptive_thresh_block_size),
              c_value |-> params.adaptive_thresh_c]
    ELSE IF binarise = "thresh_fail"
        THEN [source |-> "main image, Pillow grayscale (binarisation failed)"]
    ELSE [source |-> "main image, Pillow grayscale (CV grayscale failed)"]

\* lines 464-486: where the pixels of the OCR image come from, and for a
\* fresh binarisation the block size and constant cv2.adaptiveThreshold is
\* called with
OcrSource(binary, binarise, params) ==
    IF binary # None THEN [source |-> "binary image"]
    ELSE IF binarise = "ok"
        THEN [source |-> "main image, OpenCV binarised",
              block_size |-> NormalizedBlockSize(params.adaptive_thresh_block_size),
              c_value |-> params.adaptive_thresh_c]
    ELSE IF binarise = "thresh_fail"
        THEN [source |-> "main image, Pillow grayscale (binarisation failed)"]
    ELSE [source |-> "main image, Pillow grayscale (CV grayscale failed)"]

\* lines 458-526: the OCR input image, its description and its frames
OcrInputImage(main, binary, log, max_pixels, params, binarise, ocr_saved) ==
    LET from_binary == binary # None
        img_for_ocr_processing == IF from_binary THEN binary ELSE main
        origin == OcrSource(binary, binarise, params)
        before == <<Width(img_for_ocr_processing), Height(img_for_ocr_processing)>>
        size == ResizedSize(before[1], before[2], max_pixels)
        final_ocr_input_bytes == image_to_bytes(size, "L", "PNG", ocr_saved)
    IN  [final_ocr_input_bytes |-> final_ocr_input_bytes,
         ocr_source_description |->
            [origin |-> origin, source |-> origin.source, log |-> log,
             encode_failed |-> final_ocr_input_bytes = None],
         frames |->
            (IF origin.source = "main image, OpenCV binarised"
                THEN <<"OCR binarised">> ELSE <<>>)
            \o (IF size # before THEN <<"OCR resized">> ELSE <<>>)
            \o (IF final_ocr_input_bytes # None THEN <<"final OCR input">> ELSE <<>>)]

\* lines 539-550: the bytes of a trimmer's crop
CropEncoding(crop, format) ==
    IF Truthy(crop)
        THEN image_to_bytes(<<Width(crop), Height(crop)>>, crop.mode, format, TRUE)
        ELSE None

\* lines 528-551: the dictionary returned on success, before ocr_input_image
SuccessOutcome(llm_mime, display_bytes, frames, description, contour_crop, ocr_crop, format) ==
    [processed_image |-> [mime_type |-> llm_mime, data |-> display_bytes],
     debug_images |-> frames,
     ocr_source_description |-> description,
     contour_trimmed_image_data |-> CropEncoding(contour_crop, format),
     ocr_trimmed_image_data |-> CropEncoding(ocr_crop, format)]

\* lines 418-558 and 568-572: the display branch, the OCR branch and the
\* return.  Frames are PNG encodings of images just processed and are taken
\* to succeed; the final encodings of the two branches may fail.
FinishAndReturn ==
    /\ pc = "selected"
    /\ \E display_saved \in BOOLEAN, ocr_saved \in BOOLEAN, binarise \in Binarisations :
        IF img_after_main_processing_step = None
            THEN \* .copy() on None raises AttributeError (lines 420, 568-572)
                 /\ display_size' = display_size
                 /\ debug_images' = debug_images
                 /\ result' = "error_exception"
                 /\ returned' = ErrorOutcome("AttributeError", debug_images)
            ELSE LET display == DisplayImage(img_after_main_processing_step,
                                             effective_grayscale, effective_max_pixels)
                     final_display_vision_bytes ==
                        image_to_bytes(display.size, display.mode,
                                       target_format_for_final_bytes, display_saved)
                     frames == debug_images \o display.frames
                     ocr == OcrInputImage(img_after_main_processing_step,
                                          ocr_binary_intermediate,
                                          selected_trim_method_log,
                                          effective_max_pixels, current_cv_trim_params,
                                          binarise, ocr_saved)
                     all_frames == frames \o <<"5. final display">> \o ocr.frames
                 IN  /\ display_size' = display.size
                     /\ IF final_display_vision_bytes = None
                            THEN /\ debug_images' = frames
                                 /\ result' = "error_display_encode"
                                 /\ returned' = ErrorOutcome("display encoding failed",
                                                             frames)
                            ELSE /\ debug_images' = all_frames
                                 /\ result' = "success"
                                 /\ returned' =
                                        WithOcrInputImage(
                                            SuccessOutcome(mime_type_for_llm,
                                                           final_display_vision_bytes,
                                                           all_frames,
                                                           ocr.ocr_source_description,
                                                           contour_main, ocr_main,
                                                           effective_output_format),
                                            ocr.final_ocr_input_bytes)
    /\ pc' = "done"
    /\ UNCHANGED <<moduleVars, callVars, paramVars, formatVars, orientVars, contourVars,
                   ocrVars, selectVars, trimVars>>

(***************************************************************************)
(* The two trimmers on their own: every call, then its return              *)
(***************************************************************************)
\* trim_call is a call of trim_image_by_contours on img
IsContourTrimCall(img) ==
    LET contourSets == SubsetsUpTo(ContourPool(img), MaxContours)
    IN  \/ \E contours \in contourSets, padding \in PadValues, ratio \in AreaRatios :
            trim_call = [fn |-> "trim_image_by_contours", img |-> img,
                         padding |-> padding, ratio |-> ratio, fault |-> "none",
                         contours |-> contours]
        \/ \E fault \in ContourFaults \ {"none"} :
            trim_call = [fn |-> "trim_image_by_contours", img |-> img,
                         padding |-> 0, ratio |-> <<0, 1>>, fault |-> fault,
                         contours |-> {}]

\* trim_call is a call of trim_image_by_ocr_text_bounds on img
IsOcrTrimCall(img) ==
    LET rowSets == SubsetsUpTo(OcrRows(img), MaxBoxes)
    IN  \/ \E rows \in rowSets, padding \in PadValues, p \in OcrParamSets :
            trim_call = [fn |-> "trim_image_by_ocr_text_bounds", available |-> TRUE,
                         img |-> img, padding |-> padding, params |-> p,
                         engine |-> "ok", rows |-> rows]
        \/ \E a \in BOOLEAN, p \in OcrParamSets, engine \in OcrEngineOutcomes :
            trim_call = [fn |-> "trim_image_by_ocr_text_bounds", available |-> a,
                         img |-> img, padding |-> 0, params |-> p,
                         engine |-> engine, rows |-> {}]

\* preprocess_uploaded_image is not called
NoPipelineCall ==
    /\ PYTESSERACT_AVAILABLE = TRUE
    /\ DEFAULT_TRIMMING_STRATEGY = "ocr_then_contour"
    /\ pc = "no_call"
    /\ trimming_strategy_override = NoStrategy
    /\ should_apply_contour_trim = TRUE
    /\ should_apply_ocr_trim_tuning = TRUE
    /\ effective_max_pixels = 0
    /\ current_cv_trim_params = DefaultThresholdParams
    /\ uploaded_file_data = EmptyData
    /\ mime_type = "" /\ output_format = NoFormat /\ effective_grayscale = FALSE
    /\ mime_type_for_llm = "" /\ target_format_for_final_bytes = Unset
    /\ img_oriented = None /\ img_oriented_pixels = None
    /\ contour_main = None /\ contour_binary = None /\ contour_path = "pending"
    /\ execute_ocr_trim = FALSE /\ ocr_main = None /\ ocr_path = "pending"
    /\ ocr_trim_calls = 0
    /\ img_after_main_processing_step = None
    /\ ocr_binary_intermediate = None
    /\ selected_trim_method_log = "undecided"
    /\ display_size = Unset
    /\ debug_images = <<>>
    /\ result = "pending"
    /\ returned = Unset

InitTrim ==
    /\ NoPipelineCall
    /\ NoObjects
    /\ \E img \in OrientedImages : IsContourTrimCall(img) \/ IsOcrTrimCall(img)
    /\ trim_ret = Unset

pipelineVars == <<moduleVars, pc, callVars, paramVars, formatVars, orientVars,
                  contourVars, ocrVars, selectVars, finishVars, debug_images>>

\* the caller's image object after the call: the trimmers work on copies
\* (Image.copy, np.array, Image.crop) and never write to their argument
CallerImageAfterTrim(img_pil_input) == img_pil_input

ReturnFromContourTrim ==
    /\ trim_call.fn = "trim_image_by_contours"
    /\ trim_ret = Unset
    /\ LET r == trim_image_by_contours(trim_call.img, trim_call.padding, trim_call.ratio,
                                       trim_call.fault, trim_call.contours)
       IN  trim_ret' = [main |-> r.main, binary |-> r.binary, path |-> r.path,
                        img_pil_input |-> CallerImageAfterTrim(trim_call.img)]
    /\ UNCHANGED <<pipelineVars, trim_call>>

ReturnFromOcrTrim ==
    /\ trim_call.fn = "trim_image_by_ocr_text_bounds"
    /\ trim_ret = Unset
    /\ LET r == trim_image_by_ocr_text_bounds(trim_call.available, trim_call.img,
                    trim_call.padding, trim_call.params, trim_call.engine, trim_call.rows)
       IN  trim_ret' = [ret |-> r.ret, path |-> r.path,
                        img_pil_input |-> CallerImageAfterTrim(trim_call.img)]
    /\ UNCHANGED <<pipelineVars, trim_call>>

NextTrim ==
    \/ ReturnFromContourTrim
    \/ ReturnFromOcrTrim

SpecTrim == InitTrim /\ [][NextTrim]_vars

(***************************************************************************)
(* resize_image_pillow on its own: every call, then its return             *)
(***************************************************************************)
\* max_total_pixels: None and 0 are both falsy (0 stands for them), -1 is a
\* negative budget, the others are budgets of at least one pixel
ResizeBudgets == (-1) .. (MaxSide * MaxSide)

\* what Image.resize can do: return the resized image or raise
ResizeFaults == {"none", "resize_raises"}

\* the (width, height) of the image resize_image_pillow returns
resize_image_pillow(width, height, max_total_pixels, fault) ==
    IF fault = "resize_raises" THEN <<width, height>>
    ELSE ResizedSize(width, height, max_total_pixels)

InitResize ==
    /\ NoPipelineCall
    /\ NoObjects
    /\ \E width \in 1 .. MaxSide, height \in 1 .. MaxSide,
          max_total_pixels \in ResizeBudgets, fault \in ResizeFaults :
            trim_call = [fn |-> "resize_image_pillow", width |-> width,
                         height |-> height, max_total_pixels |-> max_total_pixels,
                         fault |-> fault]
    /\ trim_ret = Unset

ReturnFromResize ==
    /\ trim_call.fn = "resize_image_pillow"
    /\ trim_ret = Unset
    /\ LET size == resize_image_pillow(trim_call.width, trim_call.height,
                                       trim_call.max_total_pixels, trim_call.fault)
       IN  trim_ret' = [width |-> size[1], height |-> size[2]]
    /\ UNCHANGED <<pipelineVars, trim_call>>

NextResize == ReturnFromResize

SpecResize == InitResize /\ [][NextResize]_vars

(***************************************************************************)
(* The orientation correctors on their own: a call on an uploaded page,    *)
(* then a second call on the image the first one returned                  *)
(***************************************************************************)
\* pages as written: MaxDim x (MaxDim - 1) pixels, each row a text line
\* (all ink) or blank
WrittenPages ==
    {Picture(MaxDim, MaxDim - 1, (0 .. (MaxDim - 1)) \X rows, 0, 0, FALSE) :
        rows \in SUBSET (0 .. (MaxDim - 2))}

\* the ways a page is stored in a file: turned and possibly mirrored
StoredPages ==
    {Rotate(page, angle) : page \in WrittenPages, angle \in Angles}
    \cup {Rotate(FlipLeftRight(page), angle) : page \in WrittenPages, angle \in Angles}

\* EXIF Orientation values; 0 stands for a file without the tag
ExifOrientations == 0 .. 8

\* uploads: any stored page with any tag
Uploads == {[page EXCEPT !.exif = tag] : page \in StoredPages, tag \in ExifOrientations}

\* characters image_to_string reads, per direction of the text
CharProfiles == [Angles -> {0, 1}]

\* the angles at which projection scoring fails to binarise the image
ScoringFailures == {{}} \cup {{angle} : angle \in Angles}

InitOrient ==
    /\ NoPipelineCall
    /\ NoObjects
    /\ \E img \in Uploads :
        \/ trim_call = [fn |-> "correct_image_orientation", img |-> img]
        \/ \E available \in BOOLEAN, chars \in CharProfiles, failed \in ScoringFailures :
            trim_call = [fn |-> "orient_image_comprehensively", img |-> img,
                         available |-> available, chars |-> chars, failed |-> failed]
    /\ trim_ret = Unset

\* the corrector named in trim_call applied to img
OrientationCorrector(call, img) ==
    IF call.fn = "correct_image_orientation"
        THEN [img |-> correct_image_orientation(img)]
        ELSE orient_image_comprehensively(call.available, img, call.chars, call.failed)

IsOrientationCall ==
    trim_call.fn \in {"correct_image_orientation", "orient_image_comprehensively"}

ApplyOrientationCorrector ==
    /\ IsOrientationCall
    /\ trim_ret = Unset
    /\ trim_ret' = [first |-> OrientationCorrector(trim_call, trim_call.img),
                    again |-> Unset]
    /\ UNCHANGED <<pipelineVars, trim_call>>

ApplyOrientationCorrectorAgain ==
    /\ IsOrientationCall
    /\ trim_ret # Unset
    /\ trim_ret.again = Unset
    /\ trim_ret' = [trim_ret EXCEPT
                        !.again = OrientationCorrector(trim_call, trim_ret.first.img)]
    /\ UNCHANGED <<pipelineVars, trim_call>>

NextOrient ==
    \/ ApplyOrientationCorrector
    \/ ApplyOrientationCorrectorAgain

SpecOrient == InitOrient /\ [][NextOrient]_vars

(***************************************************************************)
(* opencv_pipeline_utils.apply_adaptive_threshold and                      *)
(* apply_morphological_operation on their own: every call, then its return *)
(***************************************************************************)
InitSizes ==
    /\ NoPipelineCall
    /\ NoObjects
    /\ \/ \E block_size \in RequestedSizes, fault \in CvFaults :
            trim_call = [fn |-> "apply_adaptive_threshold", block_size |-> block_size,
                         fault |-> fault]
       \/ \E operation \in MorphOperations, kernel_size \in RequestedSizes,
             iterations \in MorphIterations, fault \in CvFaults :
            trim_call = [fn |-> "apply_morphological_operation",
                         operation |-> operation, kernel_size |-> kernel_size,
                         iterations |-> iterations, fault |-> fault]
    /\ trim_ret = Unset

ReturnFromAdaptiveThreshold ==
    /\ trim_call.fn = "apply_adaptive_threshold"
    /\ trim_ret = Unset
    /\ trim_ret' = apply_adaptive_threshold(trim_call.block_size, trim_call.fault)
    /\ UNCHANGED <<pipelineVars, trim_call>>

ReturnFromMorphologicalOperation ==
    /\ trim_call.fn = "apply_morphological_operation"
    /\ trim_ret = Unset
    /\ trim_ret' = apply_morphological_operation(trim_call.operation,
                                                  trim_call.kernel_size,
                                                  trim_call.iterations, trim_call.fault)
    /\ UNCHANGED <<pipelineVars, trim_call>>

NextSizes ==
    \/ ReturnFromAdaptiveThreshold
    \/ ReturnFromMorphologicalOperation

SpecSizes == InitSizes /\ [][NextSizes]_vars

(***************************************************************************)
(* The parameter dictionaries across successive calls of                  *)
(* preprocess_uploaded_image: image_processor.py lines 55-85, 153 and     *)
(* 190-201.  Dictionaries and lists are objects with an identity; a name  *)
(* holds a reference to one.                                              *)
(***************************************************************************)

\* identities: the module's DEFAULT_OPENCV_TRIM_PARAMS_FROM_CONFIG, the
\* dictionary the caller passes as trim_params_override, and the dictionary
\* a call creates
DefaultsId == 0
OverrideId == 1
CallDictId == 2

\* the two list identities calls take their debug_images from in turn: the
\* list of the last outcome is still held by the caller
FrameListIds == {0, 1}

DictRef(id) == [kind |-> "dict", id |-> id]
BoolArg(b) == [kind |-> "bool", value |-> b]

\* Python dict with no key
EmptyDict == [key \in {} |-> TRUE]

\* d[key] = value
DictSet(d, key, value) ==
    [k \in DOMAIN d \cup {key} |-> IF k = key THEN value ELSE d[k]]

\* d.update(other)
DictUpdate(d, other) ==
    [k \in DOMAIN d \cup DOMAIN other |-> IF k \in DOMAIN other THEN other[k] ELSE d[k]]

\* d.get(key, default)
DictGet(d, key, default) == IF key \in DOMAIN d THEN d[key] ELSE default

\* lines 55-85: the module dictionary after import; "apply" and
\* "adaptive_thresh_block_size" are always present (setdefault)
ImportedDefaults ==
    {[apply |-> a, adaptive_thresh_block_size |-> 11] : a \in BOOLEAN}
    \cup {[apply |-> a, adaptive_thresh_block_size |-> 11, ocr_trim_tuning_apply |-> t] :
            a \in BOOLEAN, t \in BOOLEAN}

\* dictionaries a caller passes as trim_params_override
CallerOverrides ==
    {EmptyDict, [apply |-> FALSE], [apply |-> TRUE],
     [adaptive_thresh_block_size |-> 4],
     [apply |-> FALSE, ocr_trim_tuning_apply |-> FALSE]}

OverrideArgs == {None, DictRef(OverrideId)}
ApplyArgs == {None, BoolArg(TRUE), BoolArg(FALSE)}

\* a name that refers to the module dictionary itself
CopiedDictIdMutant(source_id, fresh_id) == source_id

\* line 192: dict.copy() makes a new dictionary object
CopiedDictId(source_id, fresh_id) == fresh_id

InitParams ==
    /\ NoPipelineCall
    /\ trim_call = NoTrimCall /\ trim_ret = Unset
    /\ session_state = <<>>
    /\ session_call = [fn |-> "none"]
    /\ \E defaults \in ImportedDefaults, override \in CallerOverrides :
        /\ dict_objects = (DefaultsId :> defaults) @@ (OverrideId :> override)
        /\ params_call = [pc |-> "idle",
                          defaults_at_import |-> defaults,
                          override_as_created |-> override,
                          override_used_before |-> FALSE,
                          calls_returned_before |-> FALSE,
                          returned |-> Unset,
                          returned_frames_id |-> 0]
    /\ list_objects = <<>>

\* line 153: the call is entered and debug_images names a new empty list
EnterCall ==
    /\ params_call.pc = "idle"
    /\ \E trim_params_override \in OverrideArgs, apply_trimming_opencv_override \in ApplyArgs :
        LET frames_id == CHOOSE id \in FrameListIds :
                            params_call.returned = Unset \/ id # params_call.returned_frames_id
        IN  /\ list_objects' =
                [id \in DOMAIN list_objects \cup {frames_id} |->
                    IF id = frames_id THEN <<>> ELSE list_objects[id]]
            /\ params_call' =
                [pc |-> "entered",
                 defaults_at_import |-> params_call.defaults_at_import,
                 override_as_created |-> params_call.override_as_created,
                 override_used_before |-> params_call.override_used_before,
                 calls_returned_before |-> params_call.returned # Unset,
                 returned |-> params_call.returned,
                 returned_frames_id |-> params_call.returned_frames_id,
                 trim_params_override |-> trim_params_override,
                 apply_trimming_opencv_override |-> apply_trimming_opencv_override,
                 debug_images |-> frames_id,
                 appended |-> <<>>]
    /\ UNCHANGED <<dict_objects, session_state, session_call>>
    /\ UNCHANGED <<PYTESSERACT_AVAILABLE, DEFAULT_TRIMMING_STRATEGY, pc, callVars, paramVars,
                   formatVars, orientVars, contourVars, ocrVars, selectVars, finishVars,
                   debug_images, trimVars>>

\* line 192: current_cv_trim_params = DEFAULT_OPENCV_TRIM_PARAMS_FROM_CONFIG.copy()
CopyDefaultParams ==
    /\ params_call.pc = "entered"
    /\ LET id == CopiedDictId(DefaultsId, CallDictId)
       IN  /\ dict_objects' =
                [i \in DOMAIN dict_objects \cup {id} |->
                    IF i = id THEN dict_objects[DefaultsId] ELSE dict_objects[i]]
           /\ params_call' =
                [k \in DOMAIN params_call \cup {"current_cv_trim_params"} |->
                    IF k = "pc" THEN "copied"
                    ELSE IF k = "current_cv_trim_params" THEN id
                    ELSE params_call[k]]
    /\ UNCHANGED <<list_objects, session_state, session_call>>
    /\ UNCHANGED <<PYTESSERACT_AVAILABLE, DEFAULT_TRIMMING_STRATEGY, pc, callVars, paramVars,
                   formatVars, orientVars, contourVars, ocrVars, selectVars, finishVars,
                   debug_images, trimVars>>

\* lines 193-194: a non-empty override is merged into the copy
UpdateFromOverride ==
    /\ params_call.pc = "copied"
    /\ LET arg == params_call.trim_params_override
           given == arg # None
           truthy == given /\ DOMAIN dict_objects[OverrideId] # {}
           id == params_call.current_cv_trim_params
       IN  /\ dict_objects' =
                IF truthy
                    THEN [dict_objects EXCEPT
                            ![id] = DictUpdate(dict_objects[id], dict_objects[OverrideId])]
                    ELSE dict_objects
           /\ params_call' = [params_call EXCEPT
                                !.pc = "updated",
                                !.override_used_before = @ \/ truthy]
    /\ UNCHANGED <<list_objects, session_state, session_call>>
    /\ UNCHANGED <<PYTESSERACT_AVAILABLE, DEFAULT_TRIMMING_STRATEGY, pc, callVars, paramVars,
                   formatVars, orientVars, contourVars, ocrVars, selectVars, finishVars,
                   debug_images, trimVars>>

\* lines 196-201: the contour flag, written back into the dictionary of
\* the call
ResolveContourApply ==
    /\ params_call.pc = "updated"
    /\ LET id == params_call.current_cv_trim_params
           arg == params_call.apply_trimming_opencv_override
           apply == IF arg # None THEN arg.value
                    ELSE DictGet(dict_objects[id], "apply", TRUE)
       IN  /\ dict_objects' = [dict_objects EXCEPT ![id] = DictSet(@, "apply", apply)]
           /\ params_call' =
                [k \in DOMAIN params_call \cup {"should_apply_contour_trim"} |->
                    IF k = "pc" THEN "resolved"
                    ELSE IF k = "should_apply_contour_trim" THEN apply
                    ELSE params_call[k]]
    /\ UNCHANGED <<list_objects, session_state, session_call>>
    /\ UNCHANGED <<PYTESSERACT_AVAILABLE, DEFAULT_TRIMMING_STRATEGY, pc, callVars, paramVars,
                   formatVars, orientVars, contourVars, ocrVars, selectVars, finishVars,
                   debug_images, trimVars>>

\* line 241: debug_images.append of the first frame
AppendDebugFrame ==
    /\ params_call.pc = "resolved"
    /\ params_call.appended = <<>>
    /\ list_objects' = [list_objects EXCEPT
                            ![params_call.debug_images] = Append(@, "0. initial load")]
    /\ params_call' = [params_call EXCEPT !.appended = Append(@, "0. initial load")]
    /\ UNCHANGED <<dict_objects, session_state, session_call>>
    /\ UNCHANGED <<PYTESSERACT_AVAILABLE, DEFAULT_TRIMMING_STRATEGY, pc, callVars, paramVars,
                   formatVars, orientVars, contourVars, ocrVars, selectVars, finishVars,
                   debug_images, trimVars>>

\* the call returns: the outcome depends on the dictionary of the call, the
\* flags read from it (lines 211-216) and the list of frames, which the
\* outcome carries; the dictionary of the call is dropped
ReturnFromCall ==
    /\ params_call.pc = "resolved"
    /\ LET id == params_call.current_cv_trim_params
           current == dict_objects[id]
       IN  /\ params_call' =
                [pc |-> "idle",
                 defaults_at_import |-> params_call.defaults_at_import,
                 override_as_created |-> params_call.override_as_created,
                 override_used_before |-> params_call.override_used_before,
                 calls_returned_before |-> params_call.calls_returned_before,
                 returned |->
                    [current_cv_trim_params |-> current,
                     should_apply_contour_trim |-> params_call.should_apply_contour_trim,
                     should_apply_ocr_trim_tuning |->
                        DictGet(current, "ocr_trim_tuning_apply",
                                DictGet(dict_objects[DefaultsId],
                                        "ocr_trim_tuning_apply", TRUE)),
                     debug_images |-> list_objects[params_call.debug_images],
                     trim_params_override |-> params_call.trim_params_override,
                     apply_trimming_opencv_override |->
                        params_call.apply_trimming_opencv_override,
                     appended |-> params_call.appended],
                 returned_frames_id |-> params_call.debug_images]
           /\ dict_objects' = [i \in DOMAIN dict_objects \ {CallDictId} |-> dict_objects[i]]
    /\ UNCHANGED <<list_objects, session_state, session_call>>
    /\ UNCHANGED <<PYTESSERACT_AVAILABLE, DEFAULT_TRIMMING_STRATEGY, pc, callVars, paramVars,
                   formatVars, orientVars, contourVars, ocrVars, selectVars, finishVars,
                   debug_images, trimVars>>

NextParams ==
    \/ EnterCall
    \/ CopyDefaultParams
    \/ UpdateFromOverride
    \/ ResolveContourApply
    \/ AppendDebugFrame
    \/ ReturnFromCall

SpecParams == InitParams /\ [][NextParams]_vars

(***************************************************************************)
(* The session state: core/state_manager.py.  One server process imports  *)
(* the module once, so DEFAULT_SESSION_VALUES and the two lists it holds  *)
(* are single objects; every browser session has its own                  *)
(* st.session_state, which stores references.                             *)
(***************************************************************************)

Sessions == {"s1", "s2"}

Roles == {"user"}

STEP_INPUT_SUBMISSION == "INPUT_SUBMISSION"
STEP_INITIAL_ANALYSIS == "INITIAL_ANALYSIS"
Steps == {STEP_INPUT_SUBMISSION, STEP_INITIAL_ANALYSIS}

\* identities: the dictionary DEFAULT_SESSION_VALUES and the lists written
\* as [] in lines 32 and 43
DefaultSessionValuesId == 0
DefaultMessagesId == 0
DefaultClarificationHistoryId == 1

ListRef(id) == [kind |-> "list", id |-> id]
StrValue(text) == [kind |-> "str", value |-> text]
BoolValue(b) == [kind |-> "bool", value |-> b]

\* lines 30-54, for the keys followed
DEFAULT_SESSION_VALUES ==
    [current_step |-> StrValue(STEP_INPUT_SUBMISSION),
     messages |-> ListRef(DefaultMessagesId),
     clarification_history |-> ListRef(DefaultClarificationHistoryId),
     processing |-> BoolValue(FALSE)]

\* a ChatMessage; the content tells which session wrote it
ChatMessage(role, session) == [role |-> role, content |-> "text of " \o session]

\* the identity of a list created by a [] expression
NewListId == SetMax(DOMAIN list_objects) + 1

\* a list that is full in the model
ListFull(ref) == Len(list_objects[ref.id]) >= MaxMessages

\* lines 60-62: session_state[key] = value for every missing key; the value
\* of the default dictionary is stored as it is, without a copy
WithMissingDefaults(state, defaults) ==
    [key \in DOMAIN state \cup DOMAIN defaults |->
        IF key \in DOMAIN state THEN state[key] ELSE defaults[key]]

\* lines 114-117: every key present that the defaults have is assigned the
\* default value
WithPresentKeysReset(state, defaults) ==
    [key \in DOMAIN state |->
        IF key \in DOMAIN defaults THEN defaults[key] ELSE state[key]]

InitSession ==
    /\ NoPipelineCall
    /\ trim_call = NoTrimCall /\ trim_ret = Unset
    /\ params_call = [pc |-> "no_call"]
    /\ dict_objects = (DefaultSessionValuesId :> DEFAULT_SESSION_VALUES)
    /\ list_objects = (DefaultMessagesId :> <<>>) @@ (DefaultClarificationHistoryId :> <<>>)
    /\ session_state = [s \in Sessions |-> EmptyDict]
    /\ session_call = [fn |-> "none"]

SessionFrame ==
    UNCHANGED <<PYTESSERACT_AVAILABLE, DEFAULT_TRIMMING_STRATEGY, params_call, pc, callVars,
                paramVars, formatVars, orientVars, contourVars, ocrVars, selectVars,
                finishVars, debug_images, trimVars>>

\* lines 56-62
initialize_session_state(s) ==
    /\ session_state' = [session_state EXCEPT
            ![s] = WithMissingDefaults(@, dict_objects[DefaultSessionValuesId])]
    /\ session_call' = [fn |-> "other"]
    /\ UNCHANGED <<dict_objects, list_objects>>
    /\ SessionFrame

\* lines 68-70
set_current_step(s, step) ==
    /\ session_state' = [session_state EXCEPT
            ![s] = DictSet(@, "current_step", StrValue(step))]
    /\ session_call' = [fn |-> "other"]
    /\ UNCHANGED <<dict_objects, list_objects>>
    /\ SessionFrame

\* lines 72-75; without the key the attribute access raises and nothing
\* changes
add_message(s, role) ==
    /\ "messages" \in DOMAIN session_state[s]
    /\ LET ref == session_state[s]["messages"]
       IN  /\ ~ListFull(ref)
           /\ list_objects' = [list_objects EXCEPT
                                ![ref.id] = Append(@, ChatMessage(role, s))]
    /\ session_call' = [fn |-> "other"]
    /\ UNCHANGED <<dict_objects, session_state>>
    /\ SessionFrame

\* lines 106-108
set_processing_status(s, is_processing) ==
    /\ session_state' = [session_state EXCEPT
            ![s] = DictSet(@, "processing", BoolValue(is_processing))]
    /\ session_call' = [fn |-> "other"]
    /\ UNCHANGED <<dict_objects, list_objects>>
    /\ SessionFrame

\* lines 110-132
reset_for_new_session(s) ==
    /\ LET defaults == dict_objects[DefaultSessionValuesId]
           reset == WithPresentKeysReset(session_state[s], defaults)
           initialized == WithMissingDefaults(reset, defaults)
       IN  session_state' = [session_state EXCEPT
                ![s] = DictSet(initialized, "processing", BoolValue(FALSE))]
    /\ session_call' = [fn |-> "reset_for_new_session", session |-> s]
    /\ UNCHANGED <<dict_objects, list_objects>>
    /\ SessionFrame

\* lines 152-157
add_clarification_history_message(s, role) ==
    /\ LET missing == "clarification_history" \notin DOMAIN session_state[s]
           ref == IF missing THEN ListRef(NewListId)
                  ELSE session_state[s]["clarification_history"]
       IN  /\ IF missing THEN TRUE ELSE ~ListFull(ref)
           /\ session_state' =
                IF missing
                    THEN [session_state EXCEPT
                            ![s] = DictSet(@, "clarification_history", ref)]
                    ELSE session_state
           /\ list_objects' =
                [id \in DOMAIN list_objects \cup {ref.id} |->
                    IF id = ref.id
                        THEN (IF missing THEN <<>> ELSE list_objects[id])
                                \o <<ChatMessage(role, s)>>
                        ELSE list_objects[id]]
    /\ session_call' = [fn |-> "other"]
    /\ UNCHANGED dict_objects
    /\ SessionFrame

NextSession ==
    \E s \in Sessions :
        \/ initialize_session_state(s)
        \/ \E step \in Steps : set_current_step(s, step)
        \/ \E role \in Roles : add_message(s, role)
        \/ \E b \in BOOLEAN : set_processing_status(s, b)
        \/ reset_for_new_session(s)
        \/ \E role \in Roles : add_clarification_history_message(s, role)

SpecSession == InitSession /\ [][NextSession]_vars

Next ==
    \/ RejectEmptyData
    \/ RejectUnsupportedMime
    \/ ResolveParameters
    \/ OpenRaises
    \/ OpenAndOrient
    \/ RunContourTrim
    \/ SkipContourTrim
    \/ RunOcrTrim
    \/ RunOcrTrimUnpackRaises
    \/ SkipOcrTrim
    \/ SelectMainImage
    \/ FinishAndReturn

Spec == Init /\ [][Next]_vars

(***************************************************************************)
(* Properties                                                              *)
(***************************************************************************)
ContourFailurePaths ==
    {"no_contours", "no_valid_contours", "invalid_crop", "gray_fail", "thresh_fail",
     "exception"}

OcrEngineErrorPaths == {"TesseractError", "RuntimeError"}

\* C1: whatever the strategy and whatever the two trimmers produced, the
\* arbiter selects an image, and when neither trimmer produced a crop the
\* selected image is the oriented, untrimmed one.
C1_ArbiterSelectsAnImage ==
    pc = "selected" =>
        /\ img_after_main_processing_step # None
        /\ img_after_main_processing_step.kind = "image"
        /\ (contour_path # "cropped" /\ ocr_path # "cropped")
                => img_after_main_processing_step = img_oriented

C1_Witness ==
    /\ pc = "selected"
    /\ effective_trimming_strategy \in UnknownStrategies
    /\ contour_path = "no_valid_contours"
    /\ ocr_path = "no_valid_boxes"
    /\ img_after_main_processing_step = img_oriented

\* C2 (as claimed): when the OCR engine times out or raises an engine error
\* during OCR trimming, the OCR result is absent and the call does not end
\* in an error outcome.
C2_EngineErrorDoesNotFailTheCall ==
    ocr_path \in OcrEngineErrorPaths =>
        /\ ocr_main = None
        /\ result # "error_exception"

\* C3 (as claimed): under contour_then_ocr, when the contour trimmer found no
\* text region and the OCR trimmer returned a crop, the OCR crop is selected
\* without a companion binary.
C3_ContourThenOcrFallsBackToOcr ==
    (/\ pc = "selected"
     /\ effective_trimming_strategy = "contour_then_ocr"
     /\ contour_path \in ContourFailurePaths
     /\ ocr_path = "cropped")
        => /\ img_after_main_processing_step = ocr_main
           /\ ocr_binary_intermediate = None

\* C4 (as claimed): a strategy outside the five named ones behaves as
\* ocr_then_contour: the OCR trimmer runs exactly when it would run under
\* ocr_then_contour, and the same image and binary are selected.
C4_UnknownStrategyActsAsOcrThenContour ==
    trimming_strategy_override \in UnknownStrategies =>
        /\ pc \in {"ocr_done", "selected", "done"} =>
                execute_ocr_trim =
                    ExecuteOcrTrim(PYTESSERACT_AVAILABLE, "ocr_then_contour",
                                   should_apply_ocr_trim_tuning, "ocr_then_contour")
        /\ pc = "selected" =>
                LET sel == SelectTrimResult("ocr_then_contour", contour_main,
                                            contour_binary, ocr_main, img_oriented)
                IN  /\ img_after_main_processing_step = sel.main
                    /\ ocr_binary_intermediate = sel.binary

C6_StrategyNoneKeepsOrientedImage ==
    effective_trimming_strategy = "none" =>
        /\ pc = "selected" =>
                /\ img_after_main_processing_step = img_oriented
                /\ ocr_binary_intermediate = None
        /\ (pc = "done" /\ result # "error_exception") =>
                display_size = ResizedSize(Width(img_oriented), Height(img_oriented),
                                           effective_max_pixels)

C6_Witness ==
    /\ pc = "done"
    /\ effective_trimming_strategy = "none"
    /\ result = "success"
    /\ contour_path = "cropped" /\ contour_main # img_oriented
    /\ ocr_path = "cropped" /\ ocr_main # img_oriented
    /\ display_size # <<Width(img_oriented), Height(img_oriented)>>

\* C7: when the OCR engine is unavailable the OCR trimmer is not invoked and
\* has no result under any strategy; under ocr_only the oriented image is
\* selected and the call does not end in an exception.
C7_UnavailableEngineSkipsOcrTrim ==
    ~PYTESSERACT_AVAILABLE =>
        /\ pc \in {"ocr_done", "selected", "done"} =>
                /\ execute_ocr_trim = FALSE
                /\ ocr_main = None
                /\ ocr_path = "not_run"
        /\ (pc = "selected" /\ effective_trimming_strategy = "ocr_only") =>
                img_after_main_processing_step = img_oriented
        /\ pc = "done" => result \in {"success", "error_display_encode"}

C7_Witness ==
    /\ ~PYTESSERACT_AVAILABLE
    /\ pc = "done"
    /\ effective_trimming_strategy = "ocr_only"
    /\ contour_path = "cropped" /\ contour_main # img_oriented
    /\ img_after_main_processing_step = img_oriented
    /\ result = "success"

ContourCallReturned == trim_call.fn = "trim_image_by_contours" /\ trim_ret # Unset

OcrCallReturned == trim_call.fn = "trim_image_by_ocr_text_bounds" /\ trim_ret # Unset

\* C8: when gray conversion fails, thresholding fails or a stage raises, the
\* contour trimmer returns its unmodified input and no binary; the caller's
\* image is the same after every call.
C8_ContourTrimKeepsTheSource ==
    ContourCallReturned =>
        /\ trim_call.fault # "none" =>
                /\ trim_ret.path = trim_call.fault
                /\ trim_ret.main = trim_call.img
                /\ trim_ret.binary = None
        /\ trim_ret.img_pil_input = trim_call.img

C8_Witness ==
    /\ ContourCallReturned
    /\ trim_call.fault = "thresh_fail"
    /\ trim_ret.main = trim_call.img

\* a contour below the area floor r*A of its call
BelowAreaFloor(call, c) ==
    c.area * call.ratio[2] < Width(call.img) * Height(call.img) * call.ratio[1]

\* C9: the contour trimmer's result is the same without any contour whose
\* area is below min_contour_area_ratio times the image area.
C9_SmallContoursDoNotInfluenceTheCrop ==
    (ContourCallReturned /\ trim_call.fault = "none") =>
        \A c \in trim_call.contours :
            BelowAreaFloor(trim_call, c) =>
                LET without == trim_image_by_contours(trim_call.img, trim_call.padding,
                                    trim_call.ratio, "none", trim_call.contours \ {c})
                IN  /\ trim_ret.main = without.main
                    /\ trim_ret.binary = without.binary

C9_Witness ==
    /\ ContourCallReturned
    /\ trim_ret.path = "cropped"
    /\ trim_call.padding = 0
    /\ \E c \in trim_call.contours :
            /\ BelowAreaFloor(trim_call, c)
            /\ c.y < trim_ret.main.y1

\* the rectangles the returned crop was computed from
AcceptedRects(call) ==
    IF call.fn = "trim_image_by_contours"
        THEN {[x |-> c.x, y |-> c.y, w |-> c.w, h |-> c.h] :
                c \in {d \in call.contours : ~BelowAreaFloor(call, d)}}
        ELSE {[x |-> b.left, y |-> b.top, w |-> b.width, h |-> b.height] :
                b \in OcrValidBoxes(call.img, call.params, call.rows)}

ReturnedCrop == IF trim_call.fn = "trim_image_by_contours" THEN trim_ret.main ELSE trim_ret.ret.main

CropContainsAcceptedRects ==
    \A r \in AcceptedRects(trim_call) :
        /\ ReturnedCrop.x1 <= r.x /\ r.x + r.w <= ReturnedCrop.x2
        /\ ReturnedCrop.y1 <= r.y /\ r.y + r.h <= ReturnedCrop.y2

\* C10 (as claimed): for every integer padding, the crop either trimmer
\* returns contains the rectangle of every accepted region in full.
C10_CropContainsAcceptedRegions ==
    (trim_ret # Unset /\ trim_ret.path = "cropped") => CropContainsAcceptedRects

\* C10 (amended): for every padding >= 0, the crop either trimmer returns
\* contains the rectangle of every accepted region in full.
C10_CropContainsAcceptedRegionsNonNegativePadding ==
    (trim_ret # Unset /\ trim_ret.path = "cropped" /\ trim_call.padding >= 0)
        => CropContainsAcceptedRects

C10_Witness ==
    /\ OcrCallReturned
    /\ trim_ret.path = "cropped"
    /\ trim_call.padding > 0
    /\ Cardinality(AcceptedRects(trim_call)) = 2
    /\ \E r \in AcceptedRects(trim_call) : r.y < trim_call.padding
    /\ ReturnedCrop.y1 = 0
    /\ ReturnedCrop.y2 < Height(trim_call.img)

\* C11: whenever trim_image_by_contours returns a companion binary crop, the
\* binary crop has the width and the height of the main crop.
C11_BinaryCropHasTheSizeOfTheMainCrop ==
    (ContourCallReturned /\ trim_ret.binary # None) =>
        /\ Width(trim_ret.binary) = Width(trim_ret.main)
        /\ Height(trim_ret.binary) = Height(trim_ret.main)

\* a call that returned a binary crop which is not square and smaller than
\* the image
C11_Witness ==
    /\ ContourCallReturned
    /\ trim_ret.binary # None
    /\ Width(trim_ret.binary) # Height(trim_ret.binary)
    /\ Width(trim_ret.binary) < Width(trim_call.img)

ResizeCallReturned == trim_call.fn = "resize_image_pillow" /\ trim_ret # Unset

\* the side new is the side old scaled by sqrt(max / current), rounded down
ScaledDownToInteger(new, old, max_total_pixels, current_pixels) ==
    /\ new * new * current_pixels <= old * old * max_total_pixels
    /\ (new + 1) * (new + 1) * current_pixels > old * old * max_total_pixels

\* C12 (as claimed): for every image with width*height > max_total_pixels > 0,
\* very elongated ones included, the image resize_image_pillow returns has
\* at most max_total_pixels pixels and each of its sides is the side of the
\* input scaled by the common factor, up to integer rounding.
C12_ResizedImageFitsTheBudget ==
    (/\ ResizeCallReturned
     /\ trim_call.fault = "none"
     /\ trim_call.max_total_pixels > 0
     /\ trim_call.width * trim_call.height > trim_call.max_total_pixels)
    => LET current_pixels == trim_call.width * trim_call.height
       IN  /\ trim_ret.width * trim_ret.height <= trim_call.max_total_pixels
           /\ ScaledDownToInteger(trim_ret.width, trim_call.width,
                                  trim_call.max_total_pixels, current_pixels)
           /\ ScaledDownToInteger(trim_ret.height, trim_call.height,
                                  trim_call.max_total_pixels, current_pixels)

ComprehensiveCallReturned ==
    trim_call.fn = "orient_image_comprehensively" /\ trim_ret # Unset

\* C17: orient_image_comprehensively returns the metadata-corrected image
\* turned once by R, where R is the projection estimate if that is not 0
\* and the OCR estimate otherwise; with R = 0 it is the metadata-corrected
\* image itself.
C17_OneRotationProjectionFirst ==
    ComprehensiveCallReturned =>
        LET r == trim_ret.first
            R == IF r.projection_rotation_angle # 0 THEN r.projection_rotation_angle
                 ELSE r.ocr_rotation_angle
        IN  /\ r.img = Rotate(r.img_after_exif, R)
            /\ r.img.rot = (r.img_after_exif.rot + R) % 360

\* both estimates are non-zero and differ, and the page is not blank
C17_Witness ==
    /\ ComprehensiveCallReturned
    /\ trim_ret.first.projection_rotation_angle # 0
    /\ trim_ret.first.ocr_rotation_angle # 0
    /\ trim_ret.first.projection_rotation_angle # trim_ret.first.ocr_rotation_angle
    /\ trim_ret.first.img.rot =
          (trim_ret.first.img_after_exif.rot + trim_ret.first.projection_rotation_angle) % 360
    /\ trim_call.img.ink # {}

\* the page of the upload as it was before it was turned
UprightPage(img) == Rotate(img, 360 - img.rot)

\* img is an upright page, turned by 90, 180 or 270 degrees, that has a
\* horizontal text band: untagged, not mirrored, projection scoring of the
\* upright page works and gives 0, and image_to_string reads more
\* characters on the upright page than in any other direction
IsTurnedTextPage(call) ==
    /\ call.img.exif = 0 /\ ~call.img.flip
    /\ call.img.rot \in {90, 180, 270}
    /\ call.img.ink # {}
    /\ call.failed = {}
    /\ determine_90deg_rotation_by_projection_scoring(UprightPage(call.img), {}) = 0
    /\ \A angle \in {90, 180, 270} :
            /\ ScoreGreater(calculate_projection_profile_score(UprightPage(call.img)),
                            calculate_projection_profile_score(
                                Rotate(UprightPage(call.img), angle)))
               \/ angle = 180
            /\ call.chars[0] > call.chars[angle]
    /\ call.available

OrientationAppliedTwice ==
    /\ IsOrientationCall
    /\ trim_ret # Unset
    /\ trim_ret.again # Unset
    /\ trim_call.fn = "orient_image_comprehensively" => trim_call.failed = {}

\* C19: orientation correction is idempotent: a corrector applied to the
\* image it has returned gives that image back, with no further flip or
\* rotation.
C19_OrientationCorrectionIsIdempotent ==
    OrientationAppliedTwice =>
        /\ trim_ret.again.img.w = trim_ret.first.img.w
        /\ trim_ret.again.img.h = trim_ret.first.img.h
        /\ trim_ret.again.img.ink = trim_ret.first.img.ink

\* preprocess_uploaded_image has returned
CallReturned == pc \in {"returned_early", "done"}

\* the dictionary returned is an error outcome
IsErrorOutcome(outcome) == "error" \in DOMAIN outcome

SuccessFields ==
    {"processed_image", "ocr_input_image", "contour_trimmed_image_data",
     "ocr_trimmed_image_data", "ocr_source_description"}

\* no stage of the try block has run: nothing opened, oriented, trimmed,
\* selected or encoded
NoStageRan ==
    /\ img_oriented = None /\ img_oriented_pixels = None
    /\ contour_path = "pending" /\ contour_main = None
    /\ ocr_path = "pending" /\ execute_ocr_trim = FALSE
    /\ img_after_main_processing_step = None
    /\ display_size = Unset

UnsupportedMimeCall ==
    /\ pc # "no_call"
    /\ Lower(mime_type) \notin SUPPORTED_MIME_TYPES
    /\ Lower(mime_type) \notin DOMAIN CONVERTABLE_MIME_TYPES

\* C13: a call whose MIME type is in neither the supported set nor the
\* convert-first mapping never gets past the MIME check: no stage runs, and
\* what it returns is an error outcome without any success field and with an
\* empty debug-frame list.
C13_UnsupportedMimeIsRejected ==
    UnsupportedMimeCall =>
        /\ pc \in {"called", "returned_early"}
        /\ NoStageRan
        /\ CallReturned =>
            /\ IsErrorOutcome(returned)
            /\ DOMAIN returned \cap SuccessFields = {}
            /\ returned.debug_images = <<>>

C13_Witness ==
    /\ UnsupportedMimeCall
    /\ mime_type = "image/tiff"
    /\ uploaded_file_data = PlainUpload
    /\ CallReturned
    /\ returned.error = "unsupported input format"

\* the MIME type of an encoding format
MimeOfFormat(format) ==
    IF format = "PNG" THEN "image/png"
    ELSE IF format = "JPEG" THEN "image/jpeg"
    ELSE "unknown"

ConvertFirstCallSucceeded ==
    /\ pc = "done"
    /\ Lower(mime_type) \in DOMAIN CONVERTABLE_MIME_TYPES
    /\ ~IsErrorOutcome(returned)

\* C14: a successful call on a convert-first MIME type reports the mapped
\* MIME type for the display image and the display bytes are encoded in the
\* format of that MIME type, whatever output_format was.
C14_ConvertFirstTypesAreReportedAndEncodedAsMapped ==
    ConvertFirstCallSucceeded =>
        /\ returned.processed_image.mime_type = CONVERTABLE_MIME_TYPES[Lower(mime_type)]
        /\ returned.processed_image.mime_type = "image/png"
        /\ returned.processed_image.data # None
        /\ MimeOfFormat(returned.processed_image.data.format)
                = returned.processed_image.mime_type

\* a BMP upload with an upper-case MIME type and JPEG output requested
C14_Witness ==
    /\ ConvertFirstCallSucceeded
    /\ mime_type = "IMAGE/BMP"
    /\ output_format = "jpeg"
    /\ returned.processed_image.data.format = "PNG"

DisplayFormatNotWritable == target_format_for_final_bytes \notin {"JPEG", "PNG"}

\* C16: a call that reaches the final encodings returns an error outcome
\* when the display image is not encoded, and otherwise a success outcome
\* with the display bytes; when the OCR image is not encoded that success
\* outcome has no ocr_input_image, and when it is, ocr_input_image holds it.
C16_OnlyTheDisplayEncodingFailsTheCall ==
    (pc = "done" /\ img_after_main_processing_step # None) =>
        /\ DisplayFormatNotWritable => IsErrorOutcome(returned)
        /\ result = "error_display_encode" <=> IsErrorOutcome(returned)
        /\ ~IsErrorOutcome(returned) =>
            /\ returned.processed_image.data # None
            /\ returned.processed_image.data.size = display_size
            /\ IF returned.ocr_source_description.encode_failed
                  THEN "ocr_input_image" \notin DOMAIN returned
                  ELSE /\ "ocr_input_image" \in DOMAIN returned
                       /\ returned.ocr_input_image.data # None

C16_Witness ==
    /\ pc = "done"
    /\ ~IsErrorOutcome(returned)
    /\ returned.ocr_source_description.encode_failed
    /\ "ocr_input_image" \notin DOMAIN returned
    /\ returned.processed_image.data.format = "JPEG"

\* the trimmers are about to run or have run
OrientationStageDone ==
    pc \in {"oriented", "contour_done", "ocr_done", "selected", "done"}

\* C20 (as claimed): the image the trimmers receive is the upload corrected
\* by its EXIF tag and then turned by the projection-profile estimate.
C20_TrimmersReceiveTheFullyOrientedImage ==
    OrientationStageDone =>
        LET img_after_exif == correct_image_orientation(uploaded_file_data.picture)
            projection_rotation_angle ==
                determine_90deg_rotation_by_projection_scoring(img_after_exif, {})
        IN  img_oriented_pixels = Rotate(img_after_exif, projection_rotation_angle)

ThresholdCallReturned == trim_call.fn = "apply_adaptive_threshold" /\ trim_ret # Unset

\* a morphology call with a valid operation and iteration count, in which
\* OpenCV does not raise, has returned
MorphCallReturned ==
    /\ trim_call.fn = "apply_morphological_operation"
    /\ trim_call.operation \in {"open", "close"}
    /\ trim_call.iterations >= 1
    /\ trim_call.fault = "none"
    /\ trim_ret # Unset

IsOdd(n) == n % 2 = 1

\* every block size reaches cv2.adaptiveThreshold as an odd integer >= 3
\* that is the requested size, the next odd one, or 3
BlockSizeNormalized ==
    ThresholdCallReturned =>
        /\ IsOdd(trim_ret.called_with)
        /\ trim_ret.called_with >= 3
        /\ trim_ret.called_with >= trim_call.block_size
        /\ trim_call.block_size >= 3 => trim_ret.called_with <= trim_call.block_size + 1
        /\ trim_call.fault = "none" => trim_ret.ret # None

\* C21 as claimed: for every integer block size and kernel size, zero and
\* negative ones included, the size that reaches OpenCV is odd and >= 3
\* (>= 1 for morphology) and the operation is carried out.
C21_SizesNormalizedForAllIntegers ==
    /\ BlockSizeNormalized
    /\ MorphCallReturned =>
        /\ trim_ret.cv_called
        /\ trim_ret.ret # None

\* C21 as amended: block sizes are normalized for every integer; kernel
\* sizes >= 1 are normalized to the same or the next odd integer and the
\* operation is carried out; for a kernel size <= 0 OpenCV is not called
\* and the operation returns no image.
C21_SizesNormalizedKernelPositive ==
    /\ BlockSizeNormalized
    /\ MorphCallReturned =>
        IF trim_call.kernel_size >= 1
            THEN /\ trim_ret.cv_called
                 /\ IsOdd(trim_ret.called_with)
                 /\ trim_ret.called_with >= 1
                 /\ trim_ret.called_with \in
                        {trim_call.kernel_size, trim_call.kernel_size + 1}
                 /\ trim_ret.ret # None
            ELSE /\ ~trim_ret.cv_called
                 /\ trim_ret.ret = None

\* an even kernel size and an even block size have been normalized
C21_Witness ==
    \/ /\ MorphCallReturned
       /\ trim_call.kernel_size = 2
       /\ trim_ret.called_with = 3
    \/ /\ ThresholdCallReturned
       /\ trim_call.block_size = 0
       /\ trim_ret.called_with = 3

\* the conditions of C22 on a detected box, with inclusive bounds; conf10 is
\* the confidence in tenths and ratios are <<numerator, denominator>>
MeetsEveryBound(img, p, b) ==
    /\ b.conf10 >= 10 * p.min_confidence
    /\ NonBlank(b.text)
    /\ b.width >= p.min_box_width
    /\ b.height >= p.min_box_height
    /\ b.width * p.max_box_width_ratio[2] <= Width(img) * p.max_box_width_ratio[1]
    /\ b.height * p.max_box_height_ratio[2] <= Height(img) * p.max_box_height_ratio[1]
    /\ b.width * p.min_aspect_ratio[2] >= p.min_aspect_ratio[1] * b.height
    /\ b.width * p.max_aspect_ratio[2] <= p.max_aspect_ratio[1] * b.height

\* the OCR trimmer has returned from a call in which Tesseract answered
OcrFilterApplied ==
    /\ OcrCallReturned
    /\ trim_call.available
    /\ trim_call.engine = "ok"

\* C22: the crop of the OCR trimmer is computed from exactly the boxes that
\* meet every bound of the claim: without such a box no image is returned,
\* and otherwise a returned crop is the padded, clamped union of those boxes.
C22_ExactlyTheBoxesWithinBoundsContribute ==
    OcrFilterApplied =>
        LET meeting == {b \in trim_call.rows :
                            MeetsEveryBound(trim_call.img, trim_call.params, b)}
        IN  /\ meeting = {} => trim_ret.ret.main = None
            /\ trim_ret.path = "cropped" <=> trim_ret.ret.main # None
            /\ trim_ret.path = "cropped" =>
                /\ meeting # {}
                /\ LET box == OcrCropRect(trim_call.img, trim_call.padding, meeting)
                   IN  trim_ret.ret.main =
                            Crop(trim_call.img, box.x1, box.y1, box.x2, box.y2)

\* one box on each inclusive bound contributes next to a box that is too
\* tall, and the crop is the contributing box alone
C22_Witness ==
    /\ OcrFilterApplied
    /\ trim_ret.path = "cropped"
    /\ trim_call.padding = 0
    /\ \E b \in trim_call.rows, d \in trim_call.rows :
        /\ MeetsEveryBound(trim_call.img, trim_call.params, b)
        /\ b.width = trim_call.params.min_box_width
        /\ b.height * trim_call.params.max_box_height_ratio[2]
                = Height(trim_call.img) * trim_call.params.max_box_height_ratio[1]
        /\ b.width * trim_call.params.min_aspect_ratio[2]
                = trim_call.params.min_aspect_ratio[1] * b.height
        /\ ~MeetsEveryBound(trim_call.img, trim_call.params, d)
        /\ d.level = 5 /\ d.conf10 = 300 /\ d.text = "ab"
        /\ d.height > b.height
        /\ Height(trim_ret.ret.main) = b.height
        /\ Width(trim_ret.ret.main) = b.width

\* a call returned success with an OCR input image
OcrImageEmitted ==
    /\ pc = "done"
    /\ ~IsErrorOutcome(returned)
    /\ "ocr_input_image" \in DOMAIN returned

\* the emitted OCR image is single-channel PNG of the given crop resized to
\* the pixel budget
OcrImageIsSingleChannelPngOf(crop) ==
    /\ returned.ocr_input_image.mime_type = "image/png"
    /\ returned.ocr_input_image.data.format = "PNG"
    /\ returned.ocr_input_image.data.mode = "L"
    /\ returned.ocr_input_image.data.size
            = ResizedSize(Width(crop), Height(crop), effective_max_pixels)

\* the OCR image was binarised afresh from the main image with the
\* threshold parameters of the call, the block size made odd and >= 3
FreshlyBinarisedWithCallParameters ==
    LET origin == returned.ocr_source_description.origin
    IN  /\ origin.source = "main image, OpenCV binarised"
        /\ origin.block_size \in {current_cv_trim_params.adaptive_thresh_block_size,
                                  current_cv_trim_params.adaptive_thresh_block_size + 1}
        /\ IsOdd(origin.block_size)
        /\ origin.c_value = current_cv_trim_params.adaptive_thresh_c

\* C23 as claimed: with a companion binary crop the OCR image is that crop,
\* not binarised again; without one it is the selected main image
\* adaptive-thresholded with the parameters of the call; either way it is
\* single-channel and image/png.
C23_OcrImageIsBinaryCropOrFreshBinarisation ==
    OcrImageEmitted =>
        IF ocr_binary_intermediate # None
            THEN /\ returned.ocr_source_description.origin.source = "binary image"
                 /\ OcrImageIsSingleChannelPngOf(ocr_binary_intermediate)
            ELSE /\ FreshlyBinarisedWithCallParameters
                 /\ OcrImageIsSingleChannelPngOf(img_after_main_processing_step)

\* C23 as amended: as claimed, except that without a companion binary crop
\* the OCR image is the Pillow grayscale conversion of the selected main
\* image when OpenCV's grayscale conversion or thresholding fails.
C23_OcrImageIsBinaryCropBinarisationOrGrayscale ==
    OcrImageEmitted =>
        IF ocr_binary_intermediate # None
            THEN /\ returned.ocr_source_description.origin.source = "binary image"
                 /\ OcrImageIsSingleChannelPngOf(ocr_binary_intermediate)
            ELSE /\ \/ FreshlyBinarisedWithCallParameters
                    \/ returned.ocr_source_description.origin.source \in
                        {"main image, Pillow grayscale (binarisation failed)",
                         "main image, Pillow grayscale (CV grayscale failed)"}
                 /\ OcrImageIsSingleChannelPngOf(img_after_main_processing_step)

\* a contour crop with its binary was selected and the OCR image has the
\* size of the binary crop, smaller than the page
C23_Witness ==
    /\ OcrImageEmitted
    /\ ocr_binary_intermediate # None
    /\ ocr_binary_intermediate = contour_binary
    /\ returned.ocr_input_image.data.size
            = <<Width(contour_binary), Height(contour_binary)>>
    /\ Width(contour_binary) < Width(img_oriented)

\* the selection logs that name contour-based trimming
ContourLogs ==
    {"contour", "contour (contour only)"}
    \cup {"contour (ocr failed or disabled)" \o tag : tag \in {"", " (unknown strategy)"}}

\* the selection logs that name OCR-based trimming
OcrLogs ==
    {"ocr (contour failed or disabled)", "ocr (ocr only)"}
    \cup {"ocr" \o tag : tag \in {"", " (unknown strategy)"}}

\* the selection logs that say no trimming was done
NoTrimmingLogs ==
    {"no trimming (ocr only failed or disabled)",
     "no trimming (contour only failed or disabled)",
     "no trimming (strategy none)",
     "no trimming (both failed or disabled)"}
    \cup {"no trimming (both failed or disabled)" \o tag :
            tag \in {"", " (unknown strategy)"}}

SuccessReturned == pc = "done" /\ ~IsErrorOutcome(returned)

\* C24 (as claimed): the source ocr_source_description names is the one
\* that produced the main image: contour or OCR trimming only when that
\* trimmer cut the selected crop, and no trimming whenever the selected
\* image is the oriented image no trimmer cut.
C24_DescriptionNamesTheActualSource ==
    SuccessReturned =>
        LET log == returned.ocr_source_description.log
        IN  /\ log \in ContourLogs \cup OcrLogs \cup NoTrimmingLogs
            /\ log \in ContourLogs =>
                /\ contour_path = "cropped"
                /\ img_after_main_processing_step = contour_main
            /\ log \in OcrLogs =>
                /\ ocr_path = "cropped"
                /\ img_after_main_processing_step = ocr_main
            /\ (contour_path # "cropped" /\ ocr_path # "cropped") =>
                log \in NoTrimmingLogs

\* C27 (as claimed): in every success outcome the MIME type declared for the
\* display image is the one of the format its bytes are encoded in:
\* image/jpeg exactly for JPEG bytes and image/png exactly for PNG bytes.
C27_DeclaredMimeTypeMatchesTheEncoding ==
    SuccessReturned =>
        LET declared == returned.processed_image.mime_type
            encoded == returned.processed_image.data.format
        IN  /\ declared = "image/jpeg" <=> encoded = "JPEG"
            /\ declared = "image/png" <=> encoded = "PNG"

OcrImageReturned == SuccessReturned /\ "ocr_input_image" \in DOMAIN returned

\* C28: in every success outcome that carries ocr_input_image, the OCR
\* image and the display image have the same width and height.
C28_OcrAndDisplayImagesHaveTheSameSize ==
    OcrImageReturned =>
        returned.ocr_input_image.data.size = returned.processed_image.data.size

\* a success outcome whose OCR image is the binary crop the contour trimmer
\* cut, both images reduced by the pixel budget
C28_Witness ==
    /\ OcrImageReturned
    /\ contour_path = "cropped"
    /\ returned.ocr_source_description.source = "binary image"
    /\ returned.ocr_input_image.data.size
            # <<Width(img_after_main_processing_step), Height(img_after_main_processing_step)>>

OcrStagePassed == pc \in {"ocr_done", "selected", "done"} /\ ocr_path # "pending"

\* C29: the OCR trimmer is invoked at most once per call and only when the
\* engine is available: with a strategy override exactly when the strategy
\* name contains 'ocr', without one exactly when ocr_trim_tuning_apply is
\* true, whatever the default strategy is.
C29_OcrTrimmerRunsOnceAndOnlyWhenAsked ==
    /\ ocr_trim_calls <= 1
    /\ ocr_trim_calls = 1 => PYTESSERACT_AVAILABLE
    /\ (OcrStagePassed /\ PYTESSERACT_AVAILABLE) =>
        IF trimming_strategy_override # NoStrategy
            THEN ocr_trim_calls = 1 <=> ContainsOcr(trimming_strategy_override)
            ELSE ocr_trim_calls = 1 <=> should_apply_ocr_trim_tuning
    /\ (OcrStagePassed /\ ~PYTESSERACT_AVAILABLE) => ocr_trim_calls = 0

\* without an override the tuning flag has run the OCR trimmer once although
\* the default strategy is "none"
C29_Witness ==
    /\ OcrStagePassed
    /\ PYTESSERACT_AVAILABLE
    /\ should_apply_ocr_trim_tuning
    /\ trimming_strategy_override = NoStrategy
    /\ DEFAULT_TRIMMING_STRATEGY = "none"
    /\ ocr_trim_calls = 1

\* the dictionary of a call made on its own with these arguments, from the
\* dictionaries as they were at import and as the caller created them
IsolatedParams(defaults, override, override_arg, apply_arg) ==
    LET merged == IF override_arg # None THEN DictUpdate(defaults, override) ELSE defaults
        apply == IF apply_arg # None THEN apply_arg.value ELSE merged["apply"]
    IN  DictSet(merged, "apply", apply)

ParamsCallReturned == params_call.pc = "idle" /\ params_call.returned # Unset

\* C25: a call leaves the module's default trim parameters and the caller's
\* trim_params_override as they were and starts from an empty list of debug
\* frames, so a call made after other calls resolves the same parameters and
\* returns the same frames as the same call made on its own.
C25_CallsDoNotLeakIntoLaterCalls ==
    params_call.pc # "no_call" =>
        /\ dict_objects[DefaultsId] = params_call.defaults_at_import
        /\ dict_objects[OverrideId] = params_call.override_as_created
        /\ params_call.pc = "entered" => list_objects[params_call.debug_images] = <<>>
        /\ ParamsCallReturned =>
            LET r == params_call.returned
                alone == IsolatedParams(params_call.defaults_at_import,
                                        params_call.override_as_created,
                                        r.trim_params_override,
                                        r.apply_trimming_opencv_override)
            IN  /\ r.current_cv_trim_params = alone
                /\ r.should_apply_contour_trim = alone["apply"]
                /\ r.should_apply_ocr_trim_tuning
                        = DictGet(alone, "ocr_trim_tuning_apply",
                                  DictGet(params_call.defaults_at_import,
                                          "ocr_trim_tuning_apply", TRUE))
                /\ r.debug_images = r.appended

\* a call without override has returned its frame and the module's own
\* flag after an earlier call had merged an override that sets the flag
\* the other way
C25_Witness ==
    /\ ParamsCallReturned
    /\ params_call.calls_returned_before
    /\ params_call.override_used_before
    /\ params_call.returned.trim_params_override = None
    /\ params_call.returned.apply_trimming_opencv_override = None
    /\ "apply" \in DOMAIN params_call.override_as_created
    /\ params_call.override_as_created["apply"] # params_call.defaults_at_import["apply"]
    /\ params_call.returned.should_apply_contour_trim = params_call.defaults_at_import["apply"]
    /\ params_call.returned.debug_images = <<"0. initial load">>

\* the Python value a session reads under a key: the contents for a list
SessionValue(s, key) ==
    LET v == session_state[s][key]
    IN  IF v.kind = "list" THEN list_objects[v.id] ELSE v.value

JustReset(s) == session_call = [fn |-> "reset_for_new_session", session |-> s]

\* C26 (as claimed): when reset_for_new_session returns, the session's
\* messages and clarification_history are empty, its current_step is
\* INPUT_SUBMISSION and processing is false.
C26_ResetRestoresTheDefaults ==
    \A s \in Sessions :
        JustReset(s) =>
            /\ SessionValue(s, "messages") = <<>>
            /\ SessionValue(s, "clarification_history") = <<>>
            /\ SessionValue(s, "current_step") = STEP_INPUT_SUBMISSION
            /\ SessionValue(s, "processing") = FALSE

\* C30 (as claimed): every message in the messages list of an initialized
\* session was appended by that session.
C30_SessionHistoriesAreIsolated ==
    \A s \in Sessions :
        "messages" \in DOMAIN session_state[s] =>
            \A i \in 1 .. Len(SessionValue(s, "messages")) :
                SessionValue(s, "messages")[i].content = "text of " \o s

====
